---- MODULE Spec2Model ----
(***************************************************************************)
(* Overlay routing layer of FLESH (crates/flesh/src/transport/network.rs): *)
(* the peer table NodeRelationshipMap, the three tasks of Network (inbound *)
(* loop, routing handler, announcer) and Network::send, over a lossless    *)
(* broadcast medium; and the fragmentation layer of the Resolver           *)
(* (src/resolution/resolver.rs): splitting, reassembly and its GC; the     *)
(* message codec (src/transport/encoding.rs); resolve beside the routing   *)
(* handler; and the serial framing of the LoRa mode (src/modes/lora.rs).   *)
(***************************************************************************)
EXTENDS Integers, Sequences, FiniteSets, TLC

VARIABLES now, ticks, nodes, seeded, lastOp,
          up, inbox, routerQ, alive, sends, asked,
          max_length, partial_messages, wire, delivered, emitted, split,
          evicted, gcWake,
          msg, iter, sealed, ops,
          pc, held, cur, log,
          closed, inbound, map, rcall,
          serial, buffer, got, wrote

netvars == <<up, inbox, routerQ, alive, sends, asked>>

resvars == <<max_length, partial_messages, wire, delivered, emitted, split,
             evicted, gcWake>>

codvars == <<msg, iter, sealed, ops>>

tkvars == <<pc, held, cur, log>>

lorvars == <<serial, buffer, got, wrote>>

iovars == <<closed, inbound, map, rcall, lorvars>>

vars == <<now, ticks, nodes, seeded, lastOp, up, inbox, routerQ, alive, sends, asked,
          max_length, partial_messages, wire, delivered, emitted, split,
          evicted, gcWake, msg, iter, sealed, ops, pc, held, cur, log,
          closed, inbound, map, rcall, serial, buffer, got, wrote>>

-----------------------------------------------------------------------------
(* Program constants *)

RESOLUTION_TTL_SECS == 5000

ANNOUNCE_DURATION_SECS == 30

(* Bounds of the model *)

MaxTicks == 3

MaxQueue == 1

MaxSends == 3

MaxDeliveries == 5

(* calls made on one FLESHMessage *)
MaxOps == 4

-----------------------------------------------------------------------------
(* Identities.  A Uuid is modelled by a name, a key by a name.             *)

Node == {"A", "R", "B"}

Ids == Node

VerifyingKeyOf(n) == CASE n = "A" -> "KA" [] n = "R" -> "KR" [] n = "B" -> "KB"

Keys == {VerifyingKeyOf(n) : n \in Node}

(* Durations by which the clock is observed to advance between two steps.  *)
TickSteps == {1, RESOLUTION_TTL_SECS - 1}

-----------------------------------------------------------------------------
(* NodeRelation and NodeRelationshipMap.  A table is a function from the   *)
(* ids it holds to (last_seen, relation, key).                             *)

Local == <<"Local">>

Relay(via) == <<"Relay", via>>

EmptyMap == [i \in {} |-> 0]

Entry(last_seen, relation, key) ==
    [last_seen |-> last_seen, relation |-> relation, key |-> key]

Insert(t, id, e) == [i \in DOMAIN t \cup {id} |-> IF i = id THEN e ELSE t[i]]

(* Instant::elapsed() of an entry's last_seen *)
elapsed(e, t_now) == t_now - e.last_seen

pong(t, id, t_now) ==
    IF id \in DOMAIN t
    THEN Insert(t, id, Entry(t_now, Local, t[id].key))
    ELSE t

announced_keeps_key(t, id, key, t_now) ==
    IF id \in DOMAIN t
    THEN Insert(t, id, Entry(t_now, t[id].relation, t[id].key))
    ELSE Insert(t, id, Entry(t_now - RESOLUTION_TTL_SECS, Local, key))

announced(t, id, key, t_now) ==
    IF id \in DOMAIN t
    THEN Insert(t, id, Entry(t_now, t[id].relation, key))
    ELSE Insert(t, id, Entry(t_now - RESOLUTION_TTL_SECS, Local, key))

relayed_downgrades(t, id, via, t_now) ==
    IF id \in DOMAIN t
    THEN Insert(t, id, Entry(t_now, Relay(via), t[id].key))
    ELSE t

relayed(t, id, via, t_now) ==
    IF id \in DOMAIN t
    THEN LET relation == IF t[id].relation = Local THEN Local ELSE Relay(via)
         IN  Insert(t, id, Entry(t_now, relation, t[id].key))
    ELSE t

knows_inclusive(t, id, t_now) ==
    IF id \in DOMAIN t THEN elapsed(t[id], t_now) <= RESOLUTION_TTL_SECS ELSE FALSE

knows(t, id, t_now) ==
    IF id \in DOMAIN t THEN elapsed(t[id], t_now) < RESOLUTION_TTL_SECS ELSE FALSE

(* Option<T> is a sequence of length 0 (None) or 1 (Some) *)
None == <<>>

Some(x) == <<x>>

key_any_age(t, id, t_now) ==
    IF id \in DOMAIN t
    THEN Some(t[id].key)
    ELSE None

key(t, id, t_now) ==
    IF id \in DOMAIN t /\ elapsed(t[id], t_now) < RESOLUTION_TTL_SECS
    THEN Some(t[id].key)
    ELSE None

can_relay(t, id, t_now) ==
    IF id \in DOMAIN t
    THEN elapsed(t[id], t_now) < RESOLUTION_TTL_SECS /\ t[id].relation = Local
    ELSE FALSE

get_any_age(t, id, t_now) ==
    IF id \in DOMAIN t
    THEN Some(<<t[id].relation, t[id].key>>)
    ELSE None

get(t, id, t_now) ==
    IF id \in DOMAIN t /\ elapsed(t[id], t_now) < RESOLUTION_TTL_SECS
    THEN Some(<<t[id].relation, t[id].key>>)
    ELSE None

-----------------------------------------------------------------------------
(* Byte strings.  A Vec<u8> is a sequence: <<>> is the empty vector, a     *)
(* 16-byte Uuid is <<id>>, a 32-byte key is <<k>>, a text is <<word>>, and *)
(* the postcard encoding of a message is the 8-tuple built by serialize.   *)

UuidBytes(id) == <<id>>

KeyBytes(k) == <<k>>

Text(w) == <<w>>

Words == {"hi", "ho", "true", "false"}

(* slice.try_into::<[u8; 16]>() succeeds *)
IsUuidBytes(v) == Len(v) = 1 /\ v[1] \in Ids

(* 32 bytes that are not the encoding of a curve point *)
InvalidKeys == {"KX"}

(* slice.try_into::<[u8; 32]>() succeeds *)
Is32Bytes(v) == Len(v) = 1 /\ v[1] \in Keys \cup InvalidKeys

(* String::from_utf8 succeeds *)
IsUtf8(v) == Len(v) = 0 \/ (Len(v) = 1 /\ v[1] \in Words)

-----------------------------------------------------------------------------
(* Status (status.rs).  A named variant is <<name>>, Custom(n) is          *)
(* <<"Custom", n>>.                                                        *)

StatusCodes ==
    [Announce |-> 1, Ping |-> 2, Pong |-> 3, RequestKey |-> 4,
     ProvideKey |-> 5, RequestRelay |-> 6, ProvideRelay |-> 7, Relay |-> 8,
     TooLarge |-> 15, Timeout |-> 16, RelayFailure |-> 17,
     EarlyHints |-> 21, Redirect |-> 22,
     Acknowledge |-> 31, NonAuthorative |-> 32, AlreadyReported |-> 33,
     UnprocessableEntity |-> 41, Unauthorized |-> 42, Forbidden |-> 43,
     NotFound |-> 44, ServerError |-> 51, Teapot |-> 255]

STANDARD == DOMAIN StatusCodes

Named(name) == <<name>>

Custom(int) == <<"Custom", int>>

as_u8(st) == IF st[1] = "Custom" THEN st[2] ELSE StatusCodes[st[1]]

(* impl Deserialize for Status: first STANDARD variant with that octet,    *)
(* Custom(int) when there is none                                          *)
StatusFromU8(int) ==
    IF \E name \in STANDARD : StatusCodes[name] = int
    THEN Named(CHOOSE name \in STANDARD : StatusCodes[name] = int)
    ELSE Custom(int)

(* Status::as_type *)
StatusTypes ==
    [Announce |-> "Routing", Ping |-> "Routing", Pong |-> "Routing",
     RequestKey |-> "Routing", ProvideKey |-> "Routing",
     RequestRelay |-> "Routing", ProvideRelay |-> "Routing", Relay |-> "Routing",
     TooLarge |-> "RoutingError", Timeout |-> "RoutingError",
     RelayFailure |-> "RoutingError",
     EarlyHints |-> "Hints", Redirect |-> "Hints",
     Acknowledge |-> "Oks", NonAuthorative |-> "Oks", AlreadyReported |-> "Oks",
     UnprocessableEntity |-> "ClientErrors", Unauthorized |-> "ClientErrors",
     Forbidden |-> "ClientErrors", NotFound |-> "ClientErrors",
     ServerError |-> "ServerErrors", Teapot |-> "Oks"]

as_type(st) == IF st[1] = "Custom" THEN "Unknown" ELSE StatusTypes[st[1]]

(* Status::is_ok *)
is_ok(st) == as_type(st) \in {"Routing", "Hints", "Oks"}

-----------------------------------------------------------------------------
(* FLESHMessage (encoding.rs)                                              *)

PKG_VERSION_MAJOR == 0

NoHeaders == [h \in {} |-> <<>>]

(* SystemTime::now() since UNIX_EPOCH, in seconds: the wall clock is not   *)
(* the monotonic clock of the peer table, and no code reads the field.     *)
UNIX_TIME_SECS == 0

(* FLESHMessage::new *)
new(status, t_now) ==
    [version |-> PKG_VERSION_MAJOR, target |-> None, sender |-> None,
     timestamp |-> UNIX_TIME_SECS, headers |-> NoHeaders, body |-> <<>>,
     signature |-> None, status |-> status]

with_target(m, target) == [m EXCEPT !.target = Some(target)]

with_sender(m, sender) == [m EXCEPT !.sender = Some(sender)]

with_header(m, name, value) ==
    [m EXCEPT !.headers =
        [h \in DOMAIN m.headers \cup {name} |->
            IF h = name THEN value ELSE m.headers[h]]]

with_body(m, body) == [m EXCEPT !.body = body]

(* The orders in which a HashMap<String, Vec<u8>> may be iterated *)
HeaderOrders(headers) ==
    {ord \in [1..Cardinality(DOMAIN headers) -> DOMAIN headers] :
        \A i, j \in DOMAIN ord : i # j => ord[i] # ord[j]}

(* postcard::to_allocvec: the fields in declaration order, the map as the  *)
(* sequence of its entries in iteration order ord, the status as its octet *)
serialize(m, ord) ==
    <<m.version, m.target, m.sender, m.timestamp,
      [i \in DOMAIN ord |-> <<ord[i], m.headers[ord[i]]>>],
      m.body, m.signature, as_u8(m.status)>>

Serializations(m) == {serialize(m, ord) : ord \in HeaderOrders(m.headers)}

(* postcard::from_bytes succeeds *)
IsMessageBytes(data) == Len(data) = 8

(* FLESHMessage::deserialize, defined when IsMessageBytes(data) *)
deserialize(data) ==
    [version |-> data[1], target |-> data[2], sender |-> data[3],
     timestamp |-> data[4],
     headers |-> [h \in {data[5][i][1] : i \in DOMAIN data[5]} |->
                    LET i == CHOOSE i \in DOMAIN data[5] :
                                /\ data[5][i][1] = h
                                /\ \A j \in DOMAIN data[5] :
                                      data[5][j][1] = h => j <= i
                    IN  data[5][i][2]],
     body |-> data[6], signature |-> data[7],
     status |-> StatusFromU8(data[8])]

(* Ed25519: a signature is <<verifying key of the signer, signed bytes>>   *)
Signature(k, data) == <<k, data>>

(* sign with the signature taken before the sender is set *)
sign_then_set_sender(m, id, ord) ==
    LET unsigned == [m EXCEPT !.signature = None]
    IN  [unsigned EXCEPT !.sender = Some(id),
                         !.signature =
            Some(Signature(VerifyingKeyOf(id), serialize(unsigned, ord)))]

(* FLESHMessage::sign by the identity (id, key of id); ord is the order in *)
(* which the header map is iterated while the unsigned form is serialized  *)
sign(m, id, ord) ==
    LET unsigned == [m EXCEPT !.sender = Some(id), !.signature = None]
    IN  [unsigned EXCEPT !.signature =
            Some(Signature(VerifyingKeyOf(id), serialize(unsigned, ord)))]

(* FLESHMessage::verify returns Ok(()) *)
verify(m, k, ord) ==
    /\ m.signature # None
    /\ Len(m.signature[1]) = 2
    /\ m.signature[1][1] = k
    /\ m.signature[1][2] = serialize([m EXCEPT !.signature = None], ord)

(* FLESHMessage::for_id *)
for_id(m, id) == m.target = Some(id) \/ m.target = None

(* X25519 and ChaCha20Poly1305.  A secret scalar is a name; the public     *)
(* point of a secret is X25519PublicOf of it.  SigningKeyBytes(id) is      *)
(* identity.key().to_bytes(), the 32 bytes decrypt_body turns into a       *)
(* StaticSecret; its public point is not the Ed25519 verifying key of id.  *)
(* The 32 bytes of a verifying key, which encrypt_body turns into a point  *)
(* with X25519PublicKey::from, are the point of a scalar ("dKA", ..) that  *)
(* no party holds.                                                         *)
SigningKeyBytes(id) == CASE id = "A" -> "SA" [] id = "R" -> "SR" [] id = "B" -> "SB"

X25519PublicOf ==
    [e1 |-> "E1", SA |-> "XA", SR |-> "XR", SB |-> "XB",
     dKA |-> "KA", dKR |-> "KR", dKB |-> "KB"]

Points == {X25519PublicOf[sc] : sc \in DOMAIN X25519PublicOf}

ScalarOf(point) == CHOOSE sc \in DOMAIN X25519PublicOf : X25519PublicOf[sc] = point

(* secret.diffie_hellman(&point): the shared secret of the two scalars *)
diffie_hellman(secret, point) == {secret, ScalarOf(point)}

(* slice.try_into::<[u8; 32]>() succeeds on a header value *)
IsPointBytes(v) == Len(v) = 1 /\ v[1] \in Points

Nonces == {"n1"}

(* a 12-byte slice, as Nonce::from_slice requires *)
IsNonceBytes(v) == Len(v) = 1 /\ v[1] \in Nonces

(* cipher.encrypt(nonce, body) under the key shared *)
Sealed(shared, nonce, body) == <<"sealed", shared, nonce, body>>

(* cipher.decrypt(nonce, body) under the key shared returns Ok *)
Opens(shared, nonce, body) ==
    Len(body) = 4 /\ body[1] = "sealed" /\ body[2] = shared /\ body[3] = nonce

without_header(headers, name) == [h \in DOMAIN headers \ {name} |-> headers[h]]

(* FLESHMessage::encrypt_body with the ephemeral secret and the nonce the  *)
(* random generator returns; the result is always Ok                       *)
encrypt_body(m, target_key, ephemeral_secret, nonce) ==
    IF m.body = <<>>
    THEN m
    ELSE LET shared == diffie_hellman(ephemeral_secret, target_key) IN
         with_header(
            with_header([m EXCEPT !.body = Sealed(shared, nonce, m.body)],
                        "ephemeral_key", <<X25519PublicOf[ephemeral_secret]>>),
            "nonce", <<nonce>>)

(* FLESHMessage::decrypt_body by identity id: <<"Ok", message>>,           *)
(* <<"Err", error>>, or <<"Panic">> when Nonce::from_slice is given a      *)
(* slice that is not 12 bytes long                                         *)
decrypt_body(m, id) ==
    IF "ephemeral_key" \notin DOMAIN m.headers \/ "nonce" \notin DOMAIN m.headers
    THEN <<"Err", "MissingEncryptionData">>
    ELSE IF ~IsPointBytes(m.headers["ephemeral_key"])
    THEN <<"Err", "InvalidEncryptionData">>
    ELSE IF ~IsNonceBytes(m.headers["nonce"])
    THEN <<"Panic">>
    ELSE LET shared == diffie_hellman(SigningKeyBytes(id), m.headers["ephemeral_key"][1])
             nonce == m.headers["nonce"][1]
         IN  IF Opens(shared, nonce, m.body)
             THEN <<"Ok", [m EXCEPT !.body = m.body[4],
                                    !.headers = without_header(
                                        without_header(m.headers, "ephemeral_key"),
                                        "nonce")]>>
             ELSE <<"Err", "DecryptionError">>

-----------------------------------------------------------------------------
(* RoutingMessage (network.rs).  A routing message is the tuple of its     *)
(* variant name and fields.                                                *)

(* RoutingMessage::status *)
status(rm) ==
    CASE rm[1] = "Announce" -> Named("Acknowledge")
      [] rm[1] = "RequestKey" -> Named("RequestKey")
      [] rm[1] = "ProvideKey" -> Named("ProvideKey")
      [] rm[1] = "RequestRelayCapability" -> Named("RequestRelay")
      [] rm[1] = "ProvideRelayCapability" -> Named("ProvideRelay")
      [] rm[1] = "Relay" -> Named("Relay")
      [] rm[1] = "RelayFailure" -> Named("RelayFailure")
      [] rm[1] = "Ping" -> Named("Ping")
      [] rm[1] = "Pong" -> Named("Pong")

BoolText(b) == IF b THEN Text("true") ELSE Text("false")

(* RoutingMessage::to_message; ord is the iteration order used when the    *)
(* nested message of a Relay is serialized                                 *)
to_message(rm, t_now, ord) ==
    LET message == new(status(rm), t_now) IN
    CASE rm[1] = "Announce" -> with_header(message, "self", UuidBytes(rm[2]))
      [] rm[1] = "RequestKey" -> with_header(message, "for", UuidBytes(rm[2]))
      [] rm[1] = "ProvideKey" ->
            with_header(with_header(message, "for", UuidBytes(rm[2])), "key", rm[3])
      [] rm[1] = "RequestRelayCapability" ->
            with_header(message, "for", UuidBytes(rm[2]))
      [] rm[1] = "ProvideRelayCapability" ->
            with_header(with_header(with_header(message,
                "from", UuidBytes(rm[2])), "to", UuidBytes(rm[3])),
                "status", BoolText(rm[4]))
      [] rm[1] = "Relay" ->
            with_body(with_header(message, "for", UuidBytes(rm[2])),
                      serialize(rm[3], ord))
      [] rm[1] = "RelayFailure" ->
            with_body(with_header(message, "for", UuidBytes(rm[2])), rm[3])
      [] rm[1] = "Ping" ->
            with_header(with_header(message, "to", UuidBytes(rm[2])),
                        "from", UuidBytes(rm[3]))
      [] rm[1] = "Pong" ->
            with_header(with_header(message, "to", UuidBytes(rm[2])),
                        "from", UuidBytes(rm[3]))

(* fn uuid(m, h) inside from_message returns Ok *)
HasUuid(m, h) == h \in DOMAIN m.headers /\ IsUuidBytes(m.headers[h])

uuid(m, h) == m.headers[h][1]

(* RoutingMessage::from_message: <<"Some", rm>> for Ok(Some(rm)),          *)
(* <<"None">> for Ok(None), <<"Err">> for Err(_)                           *)
from_message(m) ==
    LET st == m.status[1] IN
    CASE st = "Announce" ->
            IF HasUuid(m, "for") THEN <<"Some", <<"Announce", uuid(m, "for")>> >>
            ELSE <<"Err">>
      [] st = "RequestKey" ->
            IF HasUuid(m, "for") THEN <<"Some", <<"RequestKey", uuid(m, "for")>> >>
            ELSE <<"Err">>
      [] st = "ProvideKey" ->
            IF HasUuid(m, "for")
            THEN <<"Some", <<"ProvideKey", uuid(m, "for"), m.body>> >>
            ELSE <<"Err">>
      [] st = "RequestRelay" ->
            IF HasUuid(m, "for") THEN <<"Some", <<"RequestKey", uuid(m, "for")>> >>
            ELSE <<"Err">>
      [] st = "ProvideRelay" ->
            IF /\ HasUuid(m, "from")
               /\ HasUuid(m, "to")
               /\ "status" \in DOMAIN m.headers
               /\ m.headers["status"] \in {Text("true"), Text("false")}
            THEN <<"Some", <<"ProvideRelayCapability", uuid(m, "from"),
                             uuid(m, "to"), m.headers["status"] = Text("true")>> >>
            ELSE <<"Err">>
      [] st = "Relay" ->
            IF HasUuid(m, "for") /\ IsMessageBytes(m.body)
            THEN <<"Some", <<"Relay", uuid(m, "for"), deserialize(m.body)>> >>
            ELSE <<"Err">>
      [] st = "RelayFailure" ->
            IF HasUuid(m, "for") /\ IsUtf8(m.body)
            THEN <<"Some", <<"RelayFailure", uuid(m, "for"), m.body>> >>
            ELSE <<"Err">>
      [] st = "Ping" ->
            IF HasUuid(m, "to") /\ HasUuid(m, "from")
            THEN <<"Some", <<"Ping", uuid(m, "to"), uuid(m, "from")>> >>
            ELSE <<"Err">>
      [] st = "Pong" ->
            IF HasUuid(m, "to") /\ HasUuid(m, "from")
            THEN <<"Some", <<"Ping", uuid(m, "to"), uuid(m, "from")>> >>
            ELSE <<"Err">>
      [] OTHER -> <<"None">>

-----------------------------------------------------------------------------
(* Resolver (src/resolution/resolver.rs): fragmentation.  A payload is the *)
(* sequence of its octets.  A frame on the wire is either the payload      *)
(* itself or the bincode encoding of InternalMessage::Split(part), the     *)
(* tuple of the variant index 0 and the fields of the MessagePart.         *)

MAX_PAYLOAD_SIZE == 1200

(* the range of u16: `as u16` keeps the value modulo U16 *)
U16 == 65536

PartIds == {"P1", "P2", "P3", "P4"}

(* Message::new() and with_body of resolution/encoding.rs *)
Message_new ==
    [version |-> PKG_VERSION_MAJOR, status |-> 0, target |-> None,
     headers |-> NoHeaders, body |-> <<>>]

Message_with_body(m, v) == [m EXCEPT !.body = v]

MessagePart(id, part, total_parts, data) ==
    [id |-> id, part |-> part, total_parts |-> total_parts, data |-> data]

(* bincode::encode_to_vec(InternalMessage::Split(part)) *)
EncodeSplit(part) == <<0, part.id, part.part, part.total_parts, part.data>>

(* bincode of InternalMessage::Complete(data): variant index 1, the data *)
EncodeComplete(data) == <<1, data>>

(* bincode::decode_from_slice::<InternalMessage> yields Split(_) *)
IsSplitFrame(v) == Len(v) = 5 /\ v[1] = 0

DecodeSplit(v) == MessagePart(v[2], v[3], v[4], v[5])

(* data.chunks(size) for size > 0: the number of chunks and the i-th one,  *)
(* counted from 1                                                          *)
NumChunks(len, size) == (len + size - 1) \div size

Chunk(data, size, i) ==
    SubSeq(data, (i - 1) * size + 1,
           IF i * size < Len(data) THEN i * size ELSE Len(data))

(* The loop of send_with_splitting over the chunks of the given size *)
SplitFrames(data, size, message_id) ==
    [i \in 1..NumChunks(Len(data), size) |->
        EncodeSplit(MessagePart(message_id, (i - 1) % U16,
                                NumChunks(Len(data), size) % U16,
                                Chunk(data, size, i)))]

SentFrames(frames) == [frames |-> frames, panic |-> FALSE]

send_with_splitting_full_chunks(data, ml, message_id) ==
    IF Len(data) <= ml
    THEN {SentFrames(<<data>>)}
    ELSE {SentFrames(SplitFrames(data, ml, message_id))}

(* send_with_splitting: the possible outcomes, each the frames handed to   *)
(* send and whether the task panics.  max_length - 100 on usize: below 100 *)
(* it panics with overflow checks on and wraps to a size above data.len()  *)
(* with overflow checks off, so that the payload is one chunk; at 100 the  *)
(* size is 0 and chunks(0) panics.                                         *)
send_with_splitting(data, ml, message_id) ==
    IF Len(data) <= ml
    THEN {SentFrames(<<data>>)}
    ELSE IF ml < 100
         THEN {[frames |-> <<>>, panic |-> TRUE],
               SentFrames(SplitFrames(data, Len(data), message_id))}
         ELSE IF ml = 100
              THEN {[frames |-> <<>>, panic |-> TRUE]}
              ELSE {SentFrames(SplitFrames(data, ml - 100, message_id))}

(* PartialMessage and the map partial_messages *)
NoParts == [i \in {} |-> <<>>]

NoPartials == [id \in {} |-> 0]

PartialMessage(parts, last_update) == [parts |-> parts, last_update |-> last_update]

(* complete_data after the loop over 0..total_parts, on the first n parts *)
RECURSIVE Concat(_, _)
Concat(parts, n) ==
    IF n = 0 THEN <<>> ELSE Concat(parts, n - 1) \o parts[n - 1]

(* partial.parts.len() == part.total_parts as usize *)
HaveAllParts(parts, total_parts) == Cardinality(DOMAIN parts) = total_parts

handle_message_part_keeps_entry(part, partials, t_now) ==
    LET old == IF part.id \in DOMAIN partials THEN partials[part.id].parts ELSE NoParts
        parts == [i \in DOMAIN old \cup {part.part} |->
                    IF i = part.part THEN part.data ELSE old[i]]
        inserted == [id \in DOMAIN partials \cup {part.id} |->
                        IF id = part.id THEN PartialMessage(parts, t_now)
                        ELSE partials[id]]
    IN  IF HaveAllParts(parts, part.total_parts)
           /\ \A i \in 0..(part.total_parts - 1) : i \in DOMAIN parts
        THEN [partials |-> inserted,
              out |-> Some(Message_with_body(Message_new,
                                             Concat(parts, part.total_parts)))]
        ELSE [partials |-> inserted, out |-> None]

handle_message_part_eager(part, partials, t_now) ==
    LET old == IF part.id \in DOMAIN partials THEN partials[part.id].parts ELSE NoParts
        parts == [i \in DOMAIN old \cup {part.part} |->
                    IF i = part.part THEN part.data ELSE old[i]]
        inserted == [id \in DOMAIN partials \cup {part.id} |->
                        IF id = part.id THEN PartialMessage(parts, t_now)
                        ELSE partials[id]]
    IN  IF Cardinality(DOMAIN parts) >= part.total_parts - 1
        THEN [partials |-> [id \in DOMAIN inserted \ {part.id} |-> inserted[id]],
              out |-> Some(Message_with_body(Message_new, part.data))]
        ELSE [partials |-> inserted, out |-> None]

(* handle_message_part under the write lock: the map afterwards and the    *)
(* Option<Message> returned                                                *)
handle_message_part(part, partials, t_now) ==
    LET old == IF part.id \in DOMAIN partials THEN partials[part.id].parts ELSE NoParts
        parts == [i \in DOMAIN old \cup {part.part} |->
                    IF i = part.part THEN part.data ELSE old[i]]
        inserted == [id \in DOMAIN partials \cup {part.id} |->
                        IF id = part.id THEN PartialMessage(parts, t_now)
                        ELSE partials[id]]
    IN  IF HaveAllParts(parts, part.total_parts)
        THEN IF \A i \in 0..(part.total_parts - 1) : i \in DOMAIN parts
             THEN [partials |-> [id \in DOMAIN inserted \ {part.id} |-> inserted[id]],
                   out |-> Some(Message_with_body(Message_new,
                                                  Concat(parts, part.total_parts)))]
             ELSE [partials |-> inserted, out |-> None]
        ELSE [partials |-> inserted, out |-> None]

cleanup_partial_messages_early(partials, t_now) ==
    [id \in {i \in DOMAIN partials : t_now - partials[i].last_update < 299} |->
        partials[id]]

(* cleanup_partial_messages: the retain of one run *)
cleanup_partial_messages(partials, t_now) ==
    [id \in {i \in DOMAIN partials : t_now - partials[i].last_update < 300} |->
        partials[id]]

(* a resolve call that has not been made *)
NoCall ==
    [of |-> "Resolver", pc |-> "idle", id |-> "A", deadline |-> 0, stream |-> <<>>,
     key |-> None, result |-> None, heard |-> FALSE]

(* no key is cached and resolve has not been called *)
KeysIdle ==
    /\ map = EmptyMap
    /\ rcall = NoCall

(* nothing has been written to the serial line *)
SerialIdle ==
    /\ serial = <<>>
    /\ buffer = <<>>
    /\ got = <<>>
    /\ wrote = <<>>

(* the transport is open and the inbound loop is in transport.recv()       *)
IoIdle ==
    /\ closed = FALSE
    /\ inbound = <<"recv">>
    /\ KeysIdle
    /\ SerialIdle

(* The tasks Network::new spawns and the application task calling send,   *)
(* none of them inside a call: pc is the point each task is at, held the   *)
(* peer-table lock guard it holds, cur what it is working on, log the      *)
(* history of the routing handler.                                         *)
Senders == {"s1", "s2"}

Tasks == {"handler"} \cup Senders

TasksIdle ==
    /\ pc = [k \in Tasks |-> "idle"]
    /\ held = [k \in Tasks |-> "none"]
    /\ cur = [k \in Tasks |-> <<>>]
    /\ log = <<>>

(* No FLESHMessage is being built by the application *)
CodecIdle ==
    /\ msg = new(Named("Acknowledge"), 0)
    /\ iter = <<>>
    /\ sealed = None
    /\ ops = 0

(* The state of the fragmentation layer after Resolver::new(.., ml) *)
ResolverNew(ml) ==
    /\ max_length = ml
    /\ partial_messages = NoPartials
    /\ wire = <<>>
    /\ delivered = <<>>
    /\ emitted = <<>>
    /\ split = [id \in {} |-> <<>>]
    /\ evicted = {}
    /\ gcWake = 60

-----------------------------------------------------------------------------
(* Peer-table specification: the public operations of NodeRelationshipMap  *)
(* applied in any order to the table of one node, with the clock advancing *)
(* in between.  seeded[n] is the set of ids whose entry was created by     *)
(* announced and has seen neither pong nor a further announced since.      *)

TableOwner == "A"

Tick(d) ==
    /\ ticks < MaxTicks
    /\ now' = now + d
    /\ ticks' = ticks + 1
    /\ lastOp' = <<"tick">>
    /\ UNCHANGED <<nodes, seeded, netvars, resvars, codvars, tkvars, iovars>>

OpAnnounced(n, id, k) ==
    /\ nodes' = [nodes EXCEPT ![n] = announced(@, id, k, now)]
    /\ seeded' = [seeded EXCEPT ![n] =
                    IF id \in DOMAIN nodes[n] THEN @ \ {id} ELSE @ \cup {id}]
    /\ lastOp' = <<"announced", n, id, k>>
    /\ UNCHANGED <<now, ticks, netvars, resvars, codvars, tkvars, iovars>>

OpPong(n, id) ==
    /\ nodes' = [nodes EXCEPT ![n] = pong(@, id, now)]
    /\ seeded' = [seeded EXCEPT ![n] = @ \ {id}]
    /\ lastOp' = <<"pong", n, id>>
    /\ UNCHANGED <<now, ticks, netvars, resvars, codvars, tkvars, iovars>>

OpRelayed(n, id, via) ==
    /\ nodes' = [nodes EXCEPT ![n] = relayed(@, id, via, now)]
    /\ lastOp' = <<"relayed", n, id, via>>
    /\ UNCHANGED <<now, ticks, seeded, netvars, resvars, codvars, tkvars, iovars>>

PeerIds == Ids \ {TableOwner}

TableInit ==
    /\ now = 0
    /\ ticks = 0
    /\ nodes = [n \in Node |-> EmptyMap]
    /\ seeded = [n \in Node |-> {}]
    /\ lastOp = <<"init">>
    /\ up = {TableOwner}
    /\ inbox = [n \in Node |-> <<>>]
    /\ routerQ = [n \in Node |-> <<>>]
    /\ alive = [n \in Node |-> TRUE]
    /\ sends = 0
    /\ asked = [n \in Node |-> {}]
    /\ ResolverNew(MAX_PAYLOAD_SIZE)
    /\ CodecIdle /\ TasksIdle /\ IoIdle

TableNext ==
    \/ \E d \in TickSteps : Tick(d)
    \/ \E id \in PeerIds, k \in Keys : OpAnnounced(TableOwner, id, k)
    \/ \E id \in PeerIds : OpPong(TableOwner, id)
    \/ \E id \in PeerIds, via \in PeerIds : OpRelayed(TableOwner, id, via)

TableSpec == TableInit /\ [][TableNext]_vars

-----------------------------------------------------------------------------
(* The network: every node runs the inbound loop, the routing handler and  *)
(* the announcer of Network::new over a lossless broadcast medium; up is   *)
(* the set of nodes on which Network::new has been called.                 *)
(* inbox[n] holds the frames the transport of n has received and recv()    *)
(* has not yet returned, routerQ[n] the events emitted on router_target    *)
(* and not yet consumed by handle_requests; alive[n] is false once the     *)
(* task running handle_requests has panicked.  An emission on target (the  *)
(* application stream) is an event: lastOp records the message emitted by  *)
(* the step, <<"recv", n, frame, "app", message>> for the inbound loop and *)
(* <<"handle", n, event, outcome, frames>> for the routing handler.        *)

(* Who receives what a node transmits: A and B are out of range of each    *)
(* other, R is in range of both.                                           *)
Reach(n) == CASE n = "A" -> {"R"} [] n = "R" -> {"A", "B"} [] n = "B" -> {"R"}

CanTransmit(n) == \A r \in Reach(n) \cap up : Len(inbox[r]) < MaxQueue

(* transport.send(frame) for each frame of frames, in order *)
Transmitted(box, n, frames) ==
    [r \in Node |-> IF r \in Reach(n) \cap up THEN box[r] \o frames ELSE box[r]]

(* periodic_announcements: one turn of the loop *)
Announce(n) ==
    /\ CanTransmit(n)
    /\ \E frame \in Serializations(to_message(<<"Announce", n>>, now, <<>>)) :
          /\ inbox' = Transmitted(inbox, n, <<frame>>)
          /\ lastOp' = <<"announce", n, frame>>
    /\ UNCHANGED <<now, ticks, nodes, seeded, up, routerQ, alive, sends, asked, resvars, codvars, tkvars, iovars>>

(* packet_processing_loop: one turn of the loop on a received frame *)
Recv(n) ==
    /\ inbox[n] # <<>>
    /\ Len(routerQ[n]) < MaxQueue
    /\ LET data == Head(inbox[n]) IN
       /\ inbox' = [inbox EXCEPT ![n] = Tail(@)]
       /\ IF IsMessageBytes(data)
          THEN LET message == deserialize(data)
                   rm == from_message(message)
               IN  IF rm[1] = "Some" /\ for_id(message, n)
                   THEN /\ routerQ' = [routerQ EXCEPT ![n] =
                                         IF alive[n] THEN Append(@, rm[2]) ELSE @]
                        /\ lastOp' = <<"recv", n, data, "router", rm[2]>>
                   ELSE /\ routerQ' = routerQ
                        /\ lastOp' = <<"recv", n, data, "app", message>>
          ELSE /\ routerQ' = routerQ
               /\ lastOp' = <<"recv", n, data, "dropped">>
    /\ UNCHANGED <<now, ticks, nodes, seeded, up, alive, sends, asked, resvars, codvars, tkvars, iovars>>

(* VerifyingKey::from_bytes succeeds on 32 bytes *)
IsVerifyingKey(bytes) == bytes[1] \in Keys

NoReply == [reply |-> None, op |-> <<"none">>, emit |-> None, panic |-> FALSE]

(* The match of handle_requests on one routing event v at node me holding  *)
(* table t: the reply, the peer-table operation, the message emitted to    *)
(* the application stream, and whether the task panics.                    *)
Handled(me, v, t, t_now) ==
    CASE v[1] = "Announce" ->
            [NoReply EXCEPT !.reply =
                IF ~knows(t, v[2], t_now) THEN Some(<<"RequestKey", v[2]>>) ELSE None]
      [] v[1] = "Ping" ->
            [NoReply EXCEPT !.reply =
                IF v[2] = me THEN Some(<<"Pong", v[3], v[2]>>) ELSE None]
      [] v[1] = "Pong" /\ v[2] = me ->
            [NoReply EXCEPT !.op = <<"pong", v[3]>>]
      [] v[1] = "RequestKey" ->
            [NoReply EXCEPT !.reply =
                IF v[2] = me
                THEN Some(<<"ProvideKey", me, KeyBytes(VerifyingKeyOf(me))>>)
                ELSE IF key(t, v[2], t_now) # None
                     THEN Some(<<"ProvideKey", v[2], KeyBytes(key(t, v[2], t_now)[1])>>)
                     ELSE None]
      [] v[1] = "ProvideKey" ->
            IF ~Is32Bytes(v[3])
            THEN [NoReply EXCEPT !.panic = TRUE]
            ELSE IF IsVerifyingKey(v[3])
                 THEN [NoReply EXCEPT !.op = <<"announced", v[2], v[3][1]>>]
                 ELSE NoReply
      [] v[1] = "RequestRelayCapability" /\ can_relay(t, v[2], t_now) ->
            [NoReply EXCEPT !.reply = Some(<<"ProvideRelayCapability", me, v[2], TRUE>>)]
      [] v[1] = "ProvideRelayCapability" /\ v[4] ->
            [NoReply EXCEPT !.op = <<"relayed", v[2], v[3]>>]
      [] v[1] = "Relay" /\ v[2] = me ->
            [NoReply EXCEPT !.emit = Some(v[3])]
      [] OTHER -> NoReply

(* The peer-table operation op applied under the write lock *)
Applied(t, op, t_now) ==
    CASE op[1] = "pong" -> pong(t, op[2], t_now)
      [] op[1] = "announced" -> announced(t, op[2], op[3], t_now)
      [] op[1] = "relayed" -> relayed(t, op[2], op[3], t_now)
      [] OTHER -> t

Seeded(sd, t, op) ==
    CASE op[1] = "pong" -> sd \ {op[2]}
      [] op[1] = "announced" ->
            IF op[2] \in DOMAIN t THEN sd \ {op[2]} ELSE sd \cup {op[2]}
      [] OTHER -> sd

(* The frame handle_requests sends for a reply:                            *)
(* FLESHMessage::new(msg.status()).serialize()                             *)
ReplyFrame(reply, t_now) == serialize(new(status(reply), t_now), <<>>)

(* handle_requests: the closure run on the next routing event *)
Handle(n) ==
    /\ alive[n]
    /\ routerQ[n] # <<>>
    /\ LET v == Head(routerQ[n])
           h == Handled(n, v, nodes[n], now)
           frames == IF h.reply = None THEN <<>>
                     ELSE <<ReplyFrame(h.reply[1], now)>>
       IN  /\ frames # <<>> => CanTransmit(n)
           /\ nodes' = [nodes EXCEPT ![n] = Applied(@, h.op, now)]
           /\ seeded' = [seeded EXCEPT ![n] = Seeded(@, nodes[n], h.op)]
           /\ alive' = [alive EXCEPT ![n] = ~h.panic]
           /\ routerQ' = [routerQ EXCEPT ![n] = IF h.panic THEN <<>> ELSE Tail(@)]
           /\ inbox' = Transmitted(inbox, n, frames)
           /\ lastOp' = <<"handle", n, v, h, frames>>
    /\ UNCHANGED <<now, ticks, up, sends, asked, resvars, codvars, tkvars, iovars>>

(* The message send transmits for destination id reached through via:     *)
(* RoutingMessage::Relay(id, m).to_message()?.with_target(via)             *)
RelayWrapper(id, m, via, t_now, ord) ==
    with_target(to_message(<<"Relay", id, m>>, t_now, ord), via)

send_clears_target(t, m, t_now) ==
    IF m.target = None \/ get(t, m.target[1], t_now) # None
    THEN {<<"Ok", <<f>> >> : f \in Serializations([m EXCEPT !.target = None])}
    ELSE {<<"UnknownPeer", <<>> >>}

(* Network::send on table t: the possible results, each the pair of the    *)
(* value returned to the caller and the frames handed to the transport.    *)
send(t, m, t_now) ==
    IF m.target = None
    THEN {<<"Ok", <<f>> >> : f \in Serializations(m)}
    ELSE LET id == m.target[1]
             target == get(t, id, t_now)
         IN  IF target = None
             THEN {<<"UnknownPeer", <<>> >>}
             ELSE IF target[1][1] = Local
                  THEN {<<"Ok", <<f>> >> : f \in Serializations(m)}
                  ELSE LET via == target[1][1][2] IN
                       {<<"Ok", <<f>> >> :
                          f \in UNION {Serializations(RelayWrapper(id, m, via, t_now, ord)) :
                                         ord \in HeaderOrders(m.headers)}}

(* The application of node n calls send(m).  asked[n] collects the ids for *)
(* which n has transmitted a relay request (status RequestRelay, header    *)
(* for = id).                                                              *)
Send(n, m) ==
    /\ sends < MaxSends
    /\ sends' = sends + 1
    /\ \E out \in send(nodes[n], m, now) :
          /\ out[2] # <<>> => CanTransmit(n)
          /\ inbox' = Transmitted(inbox, n, out[2])
          /\ lastOp' = <<"send", n, m, out[1], out[2]>>
          /\ asked' = [asked EXCEPT ![n] =
                IF out[1] = "Ok" /\ m.status = Named("RequestRelay") /\ HasUuid(m, "for")
                THEN @ \cup {uuid(m, "for")} ELSE @]
    /\ UNCHANGED <<now, ticks, nodes, seeded, up, routerQ, alive, resvars, codvars, tkvars, iovars>>

(* Messages an application hands to send: a signed data message, broadcast *)
(* or targeted; a signed data message whose body was altered after         *)
(* signing; and routing control messages built by hand.                    *)
DataMsg(n, t_now) == sign(with_body(new(Named("Acknowledge"), t_now), Text("hi")), n, <<>>)

DataMsgTo(n, p, t_now) ==
    sign(with_target(with_body(new(Named("Acknowledge"), t_now), Text("hi")), p), n, <<>>)

DataMsgs(n, t_now) ==
    {DataMsg(n, t_now)} \cup {DataMsgTo(n, p, t_now) : p \in Ids \ {n}}

TamperedMsg(n, t_now) == with_body(DataMsg(n, t_now), Text("ho"))

(* status ProvideKey, header for = id, body = the 32 bytes of id's key *)
KeyMsg(id, t_now) ==
    with_body(with_header(new(Named("ProvideKey"), t_now), "for", UuidBytes(id)),
              KeyBytes(VerifyingKeyOf(id)))

(* What the application of each node sends: A sends data, R publishes its  *)
(* key, B only listens.                                                    *)
AppMsgs(n, t_now) ==
    CASE n = "A" -> DataMsgs(n, t_now) \cup {TamperedMsg(n, t_now)}
      [] n = "R" -> {KeyMsg(n, t_now)}
      [] OTHER -> {}

(* The state after Network::new on each node of started *)
Started(started) ==
    /\ now = 0
    /\ ticks = 0
    /\ nodes = [n \in Node |-> EmptyMap]
    /\ seeded = [n \in Node |-> {}]
    /\ lastOp = <<"init">>
    /\ up = started
    /\ inbox = [n \in Node |-> <<>>]
    /\ routerQ = [n \in Node |-> <<>>]
    /\ alive = [n \in Node |-> TRUE]
    /\ sends = 0
    /\ asked = [n \in Node |-> {}]

(* Two nodes in range of each other *)
Init == Started({"A", "R"}) /\ ResolverNew(MAX_PAYLOAD_SIZE) /\ CodecIdle /\ TasksIdle /\ IoIdle

Next ==
    \/ Tick(RESOLUTION_TTL_SECS)
    \/ \E n \in up : Announce(n)
    \/ \E n \in up : Recv(n)
    \/ \E n \in up : Handle(n)
    \/ \E n \in up : \E m \in AppMsgs(n, now) : Send(n, m)

Spec == Init /\ [][Next]_vars

(* The relay scenario: A cannot reach B and goes through R.  R publishes   *)
(* its own key and the key of B and offers to relay for B; A asks for a    *)
(* relay to B and sends the wrapper that send builds for destination B     *)
(* through R.                                                              *)
RelayMsgs(n, t_now) ==
    CASE n = "A" ->
            {to_message(<<"RequestRelayCapability", "B">>, t_now, <<>>),
             RelayWrapper("B", DataMsgTo("A", "B", t_now), "R", t_now, <<>>)}
      [] n = "R" ->
            {KeyMsg("R", t_now), KeyMsg("B", t_now),
             to_message(<<"ProvideRelayCapability", "R", "B", TRUE>>, t_now, <<>>)}
      [] OTHER -> {}

(* All three nodes started; the exchange is followed within one           *)
(* RESOLUTION_TTL_SECS window, so the clock does not advance.              *)
RelayInit == Started(Node) /\ ResolverNew(MAX_PAYLOAD_SIZE) /\ CodecIdle /\ TasksIdle /\ IoIdle

RelayNext ==
    \/ \E n \in up : Announce(n)
    \/ \E n \in up : Recv(n)
    \/ \E n \in up : Handle(n)
    \/ \E n \in up : \E m \in RelayMsgs(n, now) : Send(n, m)

RelaySpec == RelayInit /\ [][RelayNext]_vars

(* The scheduler runs every spawned task that can make a step; the        *)
(* applications and the clock are under no obligation.                     *)
Fairness ==
    \A n \in {"A", "R"} :
        /\ WF_vars(Announce(n))
        /\ WF_vars(Recv(n))
        /\ WF_vars(Handle(n))

FairSpec == Spec /\ Fairness

-----------------------------------------------------------------------------
(* Network::send as a function of the peer table it reads: the table of   *)
(* the sender is any value of NodeRelationshipMap over the other ids, and  *)
(* the application sends.                                                  *)

Sender == "A"

Relations == {Local} \cup {Relay(via) : via \in Ids \ {Sender}}

Entries ==
    {Entry(ls, rel, k) : ls \in {0 - RESOLUTION_TTL_SECS, 0}, rel \in Relations, k \in Keys}

Tables == UNION {[D -> Entries] : D \in SUBSET (Ids \ {Sender})}

SendInit ==
    /\ now = 0
    /\ ticks = 0
    /\ \E t \in Tables : nodes = [n \in Node |-> IF n = Sender THEN t ELSE EmptyMap]
    /\ seeded = [n \in Node |-> {}]
    /\ lastOp = <<"init">>
    /\ up = Node
    /\ inbox = [n \in Node |-> <<>>]
    /\ routerQ = [n \in Node |-> <<>>]
    /\ alive = [n \in Node |-> TRUE]
    /\ sends = 0
    /\ asked = [n \in Node |-> {}]
    /\ ResolverNew(MAX_PAYLOAD_SIZE)
    /\ CodecIdle /\ TasksIdle /\ IoIdle

SendNext ==
    \/ Tick(RESOLUTION_TTL_SECS)
    \/ \E m \in AppMsgs(Sender, now) : Send(Sender, m)

SendSpec == SendInit /\ [][SendNext]_vars

-----------------------------------------------------------------------------
(* The fragmentation layer of one Resolver.  A sender hands payloads to    *)
(* send_with_splitting; wire is the sequence of the frames it has handed   *)
(* to the transport, which may deliver each of them to the receiving       *)
(* process_loop in any order, more than once or never; delivered[i] counts *)
(* the deliveries of wire[i].  emitted is the sequence of the messages     *)
(* process_loop has emitted for reassembled payloads, each with the id of  *)
(* the part that completed it; split[id] names the payload that was split  *)
(* under message id id, as <<len, k>> for Payload(len, k); evicted is the set of ids a GC run has removed     *)
(* from partial_messages; gcWake is the time at which the sleep of the GC  *)
(* task ends.                                                              *)

(* The octets of a payload of the given length *)
Payload(len, k) == SubSeq([i \in 1..len |-> (i + k) % 256], 1, len)

(* Fluid::new(): an id not used before *)
NextId(ids, used) == CHOOSE id \in ids \ used : TRUE

(* send_with_splitting(send, Payload(len, k), max_length) *)
SendWithSplitting(len, k, ids) ==
    /\ sends < MaxSends
    /\ ids \ DOMAIN split # {}
    /\ sends' = sends + 1
    /\ LET message_id == NextId(ids, DOMAIN split) IN
       \E data \in {Payload(len, k)} :
       \E o \in send_with_splitting(data, max_length, message_id) :
          /\ wire' = wire \o o.frames
          /\ delivered' = delivered \o [i \in 1..Len(o.frames) |-> 0]
          /\ split' = IF len > max_length /\ ~o.panic
                      THEN [id \in DOMAIN split \cup {message_id} |->
                              IF id = message_id THEN <<len, k>> ELSE split[id]]
                      ELSE split
          /\ lastOp' = <<"split", message_id, len, o.panic, Len(o.frames)>>
    /\ UNCHANGED <<now, ticks, nodes, seeded, up, inbox, routerQ, alive, asked,
                   max_length, partial_messages, emitted, evicted, gcWake, codvars, tkvars, iovars>>

(* The number of deliveries the transport has made *)
RECURSIVE Deliveries(_)
Deliveries(d) == IF d = <<>> THEN 0 ELSE Head(d) + Deliveries(Tail(d))

(* process_loop on a delivery of the Split frame wire[i]: the message      *)
(* handle_message_part returns is emitted on target.  (Its status is 0,    *)
(* so its body is then tried as a bincode RoutingMessage; the payloads     *)
(* sent here are not one.)                                                 *)
ProcessFrame(i) ==
    /\ Deliveries(delivered) < MaxDeliveries
    /\ IsSplitFrame(wire[i])
    /\ LET part == DecodeSplit(wire[i])
           r == handle_message_part(part, partial_messages, now)
       IN  /\ partial_messages' = r.partials
           /\ emitted' = IF r.out = None THEN emitted
                         ELSE Append(emitted, <<part.id, r.out[1]>>)
           /\ lastOp' = <<"part">>
    /\ delivered' = [delivered EXCEPT ![i] = @ + 1]
    /\ UNCHANGED <<now, ticks, nodes, seeded, netvars, max_length, wire, split,
                   evicted, gcWake, codvars, tkvars, iovars>>

(* cleanup_partial_messages: one turn of the loop, after its 60 s sleep *)
Gc ==
    /\ now >= gcWake
    /\ partial_messages' = cleanup_partial_messages(partial_messages, now)
    /\ evicted' = evicted \cup (DOMAIN partial_messages \ DOMAIN partial_messages')
    /\ gcWake' = now + 60
    /\ lastOp' = <<"gc">>
    /\ UNCHANGED <<now, ticks, nodes, seeded, netvars, max_length, wire, delivered,
                   emitted, split, codvars, tkvars, iovars>>

FragMaxLengths == {250}

(* The sender's payloads: 301 octets, then 251 octets *)
FragPayload(n) == IF n = 0 THEN <<301, 7>> ELSE <<251, 0>>

FragIds == {"P1", "P2"}

FragTickSteps == {299}

FragInit == Started({}) /\ CodecIdle /\ TasksIdle /\ IoIdle /\ \E ml \in FragMaxLengths : ResolverNew(ml)

FragNext ==
    \/ \E d \in FragTickSteps : Tick(d)
    \/ \E p \in {FragPayload(Cardinality(DOMAIN split))} :
          SendWithSplitting(p[1], p[2], FragIds)
    \/ \E i \in DOMAIN wire : ProcessFrame(i)
    \/ Gc

FragSpec == FragInit /\ [][FragNext]_vars

(* send_with_splitting as a function of the payload and of max_length *)
SplitMaxLengths == {1, 99, 100, 101, 150, 1200, 4096}

SplitLens(ml) ==
    IF ml = 101 THEN {102, U16 + 101}
    ELSE {1, 100, 101, 151, 1200, 4000, 4097}

SplitInit == Started({}) /\ CodecIdle /\ TasksIdle /\ IoIdle /\ \E ml \in SplitMaxLengths : ResolverNew(ml)

SplitNext ==
    \E len \in SplitLens(max_length) : SendWithSplitting(len, 0, PartIds)

SplitSpec == SplitInit /\ [][SplitNext]_vars

-----------------------------------------------------------------------------
(* An application building one FLESHMessage with the builder methods,      *)
(* signing it, encrypting and decrypting its body, and passing it through  *)
(* serialize and deserialize (encoding.rs).  msg is the message, iter the  *)
(* order in which its header HashMap is iterated, sealed the recipient and *)
(* the message of the last encrypt_body call, ops the number of calls.     *)

(* The iteration orders of a map after an insertion: unchanged when no key *)
(* was added, unspecified otherwise                                        *)
Inserted(o, headers) ==
    IF {o[i] : i \in DOMAIN o} = DOMAIN headers THEN {o} ELSE HeaderOrders(headers)

(* The iteration order of a map after the removal of keys *)
RECURSIVE Removed(_, _)
Removed(o, headers) ==
    IF o = <<>> THEN <<>>
    ELSE IF o[1] \in DOMAIN headers
    THEN <<o[1]>> \o Removed(Tail(o), headers)
    ELSE Removed(Tail(o), headers)

CodecHeaders == {"a", "b"}

CodecBodies == {Text("hi")}

CodecStatuses == {Named("Acknowledge"), Named("RequestKey")}

EphemeralSecrets == {"e1"}

WithHeader(name, value) ==
    /\ ops < MaxOps
    /\ msg' = with_header(msg, name, value)
    /\ iter' \in Inserted(iter, msg'.headers)
    /\ ops' = ops + 1
    /\ lastOp' = <<"with_header", name>>
    /\ UNCHANGED <<now, ticks, nodes, seeded, netvars, resvars, sealed, tkvars, iovars>>

WithBody(body) ==
    /\ ops < MaxOps
    /\ msg' = with_body(msg, body)
    /\ ops' = ops + 1
    /\ lastOp' = <<"with_body">>
    /\ UNCHANGED <<now, ticks, nodes, seeded, netvars, resvars, iter, sealed, tkvars, iovars>>

WithTarget(id) ==
    /\ ops < MaxOps
    /\ msg' = with_target(msg, id)
    /\ ops' = ops + 1
    /\ lastOp' = <<"with_target">>
    /\ UNCHANGED <<now, ticks, nodes, seeded, netvars, resvars, iter, sealed, tkvars, iovars>>

(* msg = msg.sign(identity of id) *)
Sign(id) ==
    /\ ops < MaxOps
    /\ msg' = sign(msg, id, iter)
    /\ ops' = ops + 1
    /\ lastOp' = <<"sign", id, msg>>
    /\ UNCHANGED <<now, ticks, nodes, seeded, netvars, resvars, iter, sealed, tkvars, iovars>>

(* msg = FLESHMessage::deserialize(&msg.serialize()): the received message *)
(* holds a new HashMap                                                     *)
Transfer ==
    /\ ops < MaxOps
    /\ LET data == serialize(msg, iter) IN
        /\ IsMessageBytes(data)
        /\ msg' = deserialize(data)
        /\ iter' \in HeaderOrders(msg'.headers)
        /\ lastOp' = <<"deserialize", data>>
    /\ ops' = ops + 1
    /\ UNCHANGED <<now, ticks, nodes, seeded, netvars, resvars, sealed, tkvars, iovars>>

(* msg = msg.encrypt_body(verifying key of id) *)
EncryptBody(id, ephemeral_secret, nonce) ==
    /\ ops < MaxOps
    /\ msg' = encrypt_body(msg, VerifyingKeyOf(id), ephemeral_secret, nonce)
    /\ iter' \in Inserted(iter, msg'.headers)
    /\ sealed' = Some(<<id, msg>>)
    /\ ops' = ops + 1
    /\ lastOp' = <<"encrypt_body", id>>
    /\ UNCHANGED <<now, ticks, nodes, seeded, netvars, resvars, tkvars, iovars>>

(* msg.decrypt_body(identity of id); the caller keeps the message it had   *)
(* when the call returns an error                                          *)
DecryptBody(id) ==
    /\ ops < MaxOps
    /\ LET r == decrypt_body(msg, id) IN
        /\ msg' = IF r[1] = "Ok" THEN r[2] ELSE msg
        /\ iter' = Removed(iter, msg'.headers)
        /\ lastOp' = <<"decrypt_body", id, r[1]>>
    /\ ops' = ops + 1
    /\ UNCHANGED <<now, ticks, nodes, seeded, netvars, resvars, sealed, tkvars, iovars>>

CodecInit ==
    /\ Started({})
    /\ ResolverNew(MAX_PAYLOAD_SIZE)
    /\ \E st \in CodecStatuses : msg = new(st, 0)
    /\ iter = <<>>
    /\ sealed = None
    /\ ops = 0
    /\ TasksIdle /\ IoIdle

CodecNext ==
    \/ \E name \in CodecHeaders, value \in CodecBodies : WithHeader(name, value)
    \/ \E body \in CodecBodies : WithBody(body)
    \/ \E id \in {"B"} : WithTarget(id)
    \/ \E id \in {"A"} : Sign(id)
    \/ Transfer
    \/ \E id \in {"B"}, es \in EphemeralSecrets, nonce \in Nonces :
            EncryptBody(id, es, nonce)
    \/ \E id \in {"B"} : DecryptBody(id)

CodecSpec == CodecInit /\ [][CodecNext]_vars

(* A message of every status an application can construct, passed through  *)
(* serialize and deserialize                                               *)
Octets == 0..255

Statuses == {Named(name) : name \in STANDARD} \cup {Custom(int) : int \in Octets}

StatusInit ==
    /\ Started({})
    /\ ResolverNew(MAX_PAYLOAD_SIZE)
    /\ \E st \in Statuses : msg = new(st, 0)
    /\ iter = <<>>
    /\ sealed = None
    /\ ops = 0
    /\ TasksIdle /\ IoIdle

StatusSpec == StatusInit /\ [][Transfer]_vars

-----------------------------------------------------------------------------
(* The inbound loop of one node fed by the medium: the frames another      *)
(* station can put on the air are not limited to those this program sends. *)
Receiver == "R"

(* Messages of routing control, routing error and application statuses,    *)
(* with and without the headers from_message reads, broadcast, addressed   *)
(* to the receiver and addressed to another peer, sent by another peer and *)
(* (its own broadcast coming back) by the receiver                         *)
InboundMsgs ==
    LET ping == to_message(<<"Ping", Receiver, "A">>, 0, <<>>) IN
    {new(Named("Ping"), 0),
     ping,
     with_target(ping, Receiver),
     with_target(ping, "B"),
     to_message(<<"RelayFailure", "B", Text("hi")>>, 0, <<>>),
     to_message(<<"Announce", "A">>, 0, <<>>),
     to_message(<<"RequestKey", Receiver>>, 0, <<>>),
     new(Custom(9), 0),
     DataMsg("A", 0),
     DataMsg(Receiver, 0),
     DataMsgTo("A", Receiver, 0),
     DataMsgTo("A", "B", 0)}

(* the frames of InboundMsgs and one frame that does not deserialize *)
InboundFrames == UNION {Serializations(m) : m \in InboundMsgs} \cup {Text("hi")}

(* a frame sent by another station reaches the transport of n *)
Arrive(n, data) ==
    /\ sends < MaxSends
    /\ Len(inbox[n]) < MaxQueue
    /\ inbox' = [inbox EXCEPT ![n] = Append(@, data)]
    /\ sends' = sends + 1
    /\ lastOp' = <<"arrive", n>>
    /\ UNCHANGED <<now, ticks, nodes, seeded, up, routerQ, alive, asked, resvars, codvars, tkvars, iovars>>

InboundInit == Started({Receiver}) /\ ResolverNew(MAX_PAYLOAD_SIZE) /\ CodecIdle /\ TasksIdle /\ IoIdle

InboundNext ==
    \/ \E data \in InboundFrames : Arrive(Receiver, data)
    \/ Recv(Receiver)
    \/ Handle(Receiver)

InboundSpec == InboundInit /\ [][InboundNext]_vars

-----------------------------------------------------------------------------
(* One frame taken by the inbound loop and the routing handler of a node   *)
(* whose peer table holds any combination of stale and fresh Local entries *)
(* for its two peers.                                                      *)
HandlerPeers == Ids \ {Receiver}

HandlerEntries ==
    {Entry(ls, Local, k) : ls \in {0 - RESOLUTION_TTL_SECS, 0 - 1}, k \in Keys}

HandlerTables == UNION {[D -> HandlerEntries] : D \in SUBSET HandlerPeers}

(* Every control message in the form to_message gives it, the Announce     *)
(* forms with status 001, and ProvideKey with the key in the body, where   *)
(* from_message reads it: a key, 32 bytes that are no key, other bytes     *)
HandlerMsgs ==
    {to_message(rm, 0, <<>>) :
        rm \in {<<"Announce", "A">>,
                <<"Ping", Receiver, "A">>, <<"Ping", "B", "A">>,
                <<"Pong", Receiver, "A">>, <<"Pong", "B", "A">>,
                <<"RequestKey", Receiver>>, <<"RequestKey", "A">>,
                <<"ProvideKey", "A", KeyBytes("KA")>>,
                <<"RequestRelayCapability", "A">>,
                <<"ProvideRelayCapability", "A", "B", TRUE>>,
                <<"ProvideRelayCapability", "A", "B", FALSE>>,
                <<"Relay", Receiver, DataMsg("A", 0)>>,
                <<"RelayFailure", Receiver, Text("hi")>>}}
    \cup {with_header(new(Named("Announce"), 0), "self", UuidBytes("A")),
          with_header(new(Named("Announce"), 0), "for", UuidBytes("A"))}
    \cup {with_body(with_header(new(Named("ProvideKey"), 0), "for", UuidBytes("A")),
                     body) :
            body \in {KeyBytes("KA"), KeyBytes("KB"), KeyBytes("KX"), Text("hi")}}

HandlerInit ==
    /\ now = 0
    /\ ticks = 0
    /\ \E t \in HandlerTables :
          /\ nodes = [n \in Node |-> IF n = Receiver THEN t ELSE EmptyMap]
          /\ seeded = [n \in Node |->
                IF n = Receiver
                THEN {id \in DOMAIN t : ~knows(t, id, 0)}
                ELSE {}]
    /\ lastOp = <<"init">>
    /\ up = {Receiver}
    /\ \E m \in HandlerMsgs : \E data \in Serializations(m) :
          inbox = [n \in Node |-> IF n = Receiver THEN <<data>> ELSE <<>>]
    /\ routerQ = [n \in Node |-> <<>>]
    /\ alive = [n \in Node |-> TRUE]
    /\ sends = 0
    /\ asked = [n \in Node |-> {}]
    /\ ResolverNew(MAX_PAYLOAD_SIZE)
    /\ CodecIdle /\ TasksIdle /\ IoIdle

HandlerNext ==
    \/ Recv(Receiver)
    \/ Handle(Receiver)

HandlerSpec == HandlerInit /\ [][HandlerNext]_vars

-----------------------------------------------------------------------------
(* The routing handler and Network::send step by step: taking an event or  *)
(* a message, awaiting the peer-table lock, the statement evaluated under  *)
(* the guard, and the await on transport.send.                             *)

(* The guard the arm (or match guard) for event v takes on the peer table  *)
LockNeed(me, v) ==
    CASE v[1] = "Announce" -> "read"
      [] v[1] = "Pong" /\ v[2] = me -> "write"
      [] v[1] = "RequestKey" /\ v[2] # me -> "read"
      [] v[1] = "ProvideKey" /\ Is32Bytes(v[3]) /\ IsVerifyingKey(v[3]) -> "write"
      [] v[1] = "RequestRelayCapability" -> "read"
      [] v[1] = "ProvideRelayCapability" /\ v[4] -> "write"
      [] OTHER -> "none"

(* tokio RwLock: readers share, a writer is alone *)
CanLock(k, mode) ==
    IF mode = "read"
    THEN \A j \in Tasks \ {k} : held[j] # "write"
    ELSE \A j \in Tasks \ {k} : held[j] = "none"

(* a guard kept past the statement that took it *)
GuardKept(mode) == mode

(* The guard is a temporary of the match arm, of the match guard or of the *)
(* let statement of send: it is dropped where that ends                    *)
GuardAfterStatement(mode) == "none"

(* the stream of router_target yields the events in the order they were   *)
(* emitted, to its one consumer                                            *)
NextEvent(q) == Head(q)

(* a handler that polls the stream while the reply is still being sent     *)
ReadyWhileSending(p) == p \in {"idle", "send"}

(* for_each polls the stream for the next event once the future of the     *)
(* previous one has completed                                              *)
ReadyForNext(p) == p = "idle"

HTake(n) ==
    /\ alive[n]
    /\ ReadyForNext(pc["handler"])
    /\ routerQ[n] # <<>>
    /\ LET v == NextEvent(routerQ[n])
           dies == Handled(n, v, nodes[n], now).panic
       IN  /\ alive' = [alive EXCEPT ![n] = ~dies]
           /\ routerQ' = [routerQ EXCEPT ![n] = IF dies THEN <<>> ELSE Tail(@)]
           /\ cur' = [cur EXCEPT !["handler"] = IF dies THEN <<>> ELSE <<v>>]
           /\ pc' = [pc EXCEPT !["handler"] =
                        IF dies THEN "idle"
                        ELSE IF LockNeed(n, v) = "none" THEN "arm" ELSE "lock"]
           /\ log' = Append(log, <<"take", v>>)
           /\ lastOp' = <<"task", "handler", "take", v>>
    /\ UNCHANGED <<now, ticks, nodes, seeded, up, inbox, sends, asked, held,
                   resvars, codvars, iovars>>

(* nodes.read().await / nodes.write().await returns the guard *)
HAcquire(n) ==
    /\ pc["handler"] = "lock"
    /\ CanLock("handler", LockNeed(n, cur["handler"][1]))
    /\ held' = [held EXCEPT !["handler"] = LockNeed(n, cur["handler"][1])]
    /\ pc' = [pc EXCEPT !["handler"] = "arm"]
    /\ lastOp' = <<"task", "handler", "acquire">>
    /\ UNCHANGED <<now, ticks, nodes, seeded, netvars, resvars, codvars, iovars, cur, log>>

(* the rest of the match: the table operation, the reply, then             *)
(* transport.send(..) is called for a reply                                *)
HArm(n) ==
    /\ pc["handler"] = "arm"
    /\ LET v == cur["handler"][1]
           h == Handled(n, v, nodes[n], now)
       IN  /\ nodes' = [nodes EXCEPT ![n] = Applied(@, h.op, now)]
           /\ seeded' = [seeded EXCEPT ![n] = Seeded(@, nodes[n], h.op)]
           /\ held' = [held EXCEPT !["handler"] = GuardAfterStatement(@)]
           /\ cur' = [cur EXCEPT !["handler"] =
                        IF h.reply = None THEN <<>> ELSE <<v, h.reply[1]>>]
           /\ pc' = [pc EXCEPT !["handler"] = IF h.reply = None THEN "idle" ELSE "send"]
           /\ log' = Append(log, <<IF h.reply = None THEN "none" ELSE "reply", v>>)
           /\ lastOp' = <<"task", "handler", "arm", h>>
    /\ UNCHANGED <<now, ticks, netvars, resvars, codvars, iovars>>

(* transport.send(..).await of the reply returns *)
HSent(n) ==
    /\ pc["handler"] = "send"
    /\ CanTransmit(n)
    /\ inbox' = Transmitted(inbox, n, <<ReplyFrame(cur["handler"][2], now)>>)
    /\ held' = [held EXCEPT !["handler"] = "none"]
    /\ cur' = [cur EXCEPT !["handler"] = <<>>]
    /\ pc' = [pc EXCEPT !["handler"] = "idle"]
    /\ log' = Append(log, <<"sent", cur["handler"][1]>>)
    /\ lastOp' = <<"task", "handler", "sent">>
    /\ UNCHANGED <<now, ticks, nodes, seeded, up, routerQ, alive, sends, asked,
                   resvars, codvars, iovars>>

(* the application task k of node n calls send(m) *)
SCall(n, k, m) ==
    /\ sends < MaxSends
    /\ pc[k] = "idle"
    /\ sends' = sends + 1
    /\ pc' = [pc EXCEPT ![k] = IF m.target = None THEN "send" ELSE "lock"]
    /\ \E out \in send(nodes[n], m, now) :
          cur' = [cur EXCEPT ![k] = IF m.target = None THEN <<m, out>> ELSE <<m>>]
    /\ lastOp' = <<"task", k, "call">>
    /\ UNCHANGED <<now, ticks, nodes, seeded, up, inbox, routerQ, alive, asked, held,
                   resvars, codvars, iovars, log>>

(* self.nodes.read().await returns the guard *)
SAcquire(k) ==
    /\ pc[k] = "lock"
    /\ CanLock(k, "read")
    /\ held' = [held EXCEPT ![k] = "read"]
    /\ pc' = [pc EXCEPT ![k] = "arm"]
    /\ lastOp' = <<"task", k, "acquire">>
    /\ UNCHANGED <<now, ticks, nodes, seeded, netvars, resvars, codvars, iovars, cur, log>>

(* .get(&id).ok_or(..)? and the match on the relation, up to the call of   *)
(* transport.send                                                          *)
SGet(n, k) ==
    /\ pc[k] = "arm"
    /\ \E out \in send(nodes[n], cur[k][1], now) :
          /\ cur' = [cur EXCEPT ![k] = IF out[1] = "Ok" THEN <<cur[k][1], out>> ELSE <<>>]
          /\ pc' = [pc EXCEPT ![k] = IF out[1] = "Ok" THEN "send" ELSE "idle"]
          /\ lastOp' = <<"task", k, "get", out[1]>>
    /\ held' = [held EXCEPT ![k] = GuardAfterStatement(@)]
    /\ UNCHANGED <<now, ticks, nodes, seeded, netvars, resvars, codvars, iovars, log>>

(* transport.send(..).await of send returns *)
SSent(n, k) ==
    /\ pc[k] = "send"
    /\ CanTransmit(n)
    /\ inbox' = Transmitted(inbox, n, cur[k][2][2])
    /\ held' = [held EXCEPT ![k] = "none"]
    /\ cur' = [cur EXCEPT ![k] = <<>>]
    /\ pc' = [pc EXCEPT ![k] = "idle"]
    /\ lastOp' = <<"task", k, "sent">>
    /\ UNCHANGED <<now, ticks, nodes, seeded, up, routerQ, alive, sends, asked,
                   resvars, codvars, iovars, log>>

(* frames whose events take the read guard, the write guard and none, with *)
(* and without a reply                                                     *)
TaskMsgs ==
    {with_header(new(Named("Announce"), 0), "for", UuidBytes("A")),
     with_body(with_header(new(Named("ProvideKey"), 0), "for", UuidBytes("A")),
               KeyBytes("KA")),
     to_message(<<"Ping", Receiver, "A">>, 0, <<>>),
     to_message(<<"RequestKey", "A">>, 0, <<>>)}

TaskFrames == UNION {Serializations(m) : m \in TaskMsgs}

(* what the application of the node sends: a broadcast and a message to A  *)
TaskSends == {DataMsg(Receiver, 0), DataMsgTo(Receiver, "A", 0)}

TaskInit == Started({Receiver}) /\ ResolverNew(MAX_PAYLOAD_SIZE) /\ CodecIdle /\ TasksIdle /\ IoIdle

TaskNext ==
    \/ \E data \in TaskFrames : Arrive(Receiver, data)
    \/ Recv(Receiver)
    \/ Announce(Receiver)
    \/ HTake(Receiver)
    \/ HAcquire(Receiver)
    \/ HArm(Receiver)
    \/ HSent(Receiver)
    \/ \E k \in Senders, m \in TaskSends : SCall(Receiver, k, m)
    \/ \E k \in Senders : SAcquire(k)
    \/ \E k \in Senders : SGet(Receiver, k)
    \/ \E k \in Senders : SSent(Receiver, k)

TaskSpec == TaskInit /\ [][TaskNext]_vars

-----------------------------------------------------------------------------
(* The inbound loop against a transport that fails and closes.             *)

(* what transport.recv() returns as an error: the reader channel is gone   *)
(* (Lora: BrokenPipe, "Reader channel was disconnected"), or any other     *)
(* io::Error                                                               *)
RecvErrors == {"closed", "other"}

RETRY_SLEEP_SECS == 1

(* the Err(e) arm of the loop, whatever e is *)
AfterRecvError(e, t_now) == <<"sleep", t_now + RETRY_SLEEP_SECS>>

(* the other end of the transport goes away *)
Close ==
    /\ ~closed
    /\ closed' = TRUE
    /\ lastOp' = <<"close">>
    /\ UNCHANGED <<now, ticks, nodes, seeded, netvars, resvars, codvars, tkvars, lorvars, inbound, map, rcall>>

(* transport.recv() returns Ok(data) *)
LoopRecv(n) == inbound = <<"recv">> /\ Recv(n)

(* transport.recv() returns Err(e): logged, then sleep(1 s) is awaited *)
LoopRecvErr(n, e) ==
    /\ inbound = <<"recv">>
    /\ e = "closed" => closed /\ inbox[n] = <<>>
    /\ inbound' = AfterRecvError(e, now)
    /\ lastOp' = <<"recverr", n, e>>
    /\ UNCHANGED <<now, ticks, nodes, seeded, netvars, resvars, codvars, tkvars, lorvars, closed, map, rcall>>

(* the sleep returns and the loop calls transport.recv() again *)
LoopWake(n) ==
    /\ inbound[1] = "sleep"
    /\ now >= inbound[2]
    /\ inbound' = <<"recv">>
    /\ lastOp' = <<"retry", n>>
    /\ UNCHANGED <<now, ticks, nodes, seeded, netvars, resvars, codvars, tkvars, lorvars, closed, map, rcall>>

(* a routing frame, an application frame and bytes that are no message *)
LoopFrames ==
    Serializations(to_message(<<"Ping", Receiver, "A">>, 0, <<>>))
    \cup Serializations(DataMsg("A", 0)) \cup {Text("hi")}

LoopInit == InboundInit

LoopNext ==
    \/ \E data \in LoopFrames : ~closed /\ Arrive(Receiver, data)
    \/ Close
    \/ LoopRecv(Receiver)
    \/ \E e \in RecvErrors : LoopRecvErr(Receiver, e)
    \/ LoopWake(Receiver)
    \/ Handle(Receiver)
    \/ Tick(RETRY_SLEEP_SECS)

LoopSpec == LoopInit /\ [][LoopNext]_vars

-----------------------------------------------------------------------------
(* resolve(id) of the Resolver (src/resolution/resolver.rs) and of the     *)
(* Network of src/transport/network.rs, beside their routing handler.  The *)
(* key cache map holds (Instant, VerifyingKey) per id; a routing event is  *)
(* the tuple of its variant and fields.                                    *)

RESOLVE_TIMEOUT_SECS == 10

(* map.get(&id).and_then(|v| (v.0.elapsed() < TTL).then_some(v.1)) *)
cached(m, id, t_now) ==
    IF id \in DOMAIN m /\ t_now - m[id][1] < RESOLUTION_TTL_SECS
    THEN Some(m[id][2])
    ELSE None

(* map.insert(id, (Instant::now(), key)) *)
insert(m, id, k, t_now) ==
    [i \in DOMAIN m \cup {id} |-> IF i = id THEN <<t_now, k>> ELSE m[i]]

(* router_target.emit(ev): the event goes to every stream that exists when *)
(* it is emitted                                                           *)
Subscribed(c) == c.pc = "wait"

(* the closure of filter_map on one event: "skip", "panic" or the key      *)
Filtered(of, id, ev) ==
    IF ev[1] = "Response" /\ ev[2] = id
    THEN IF ~Is32Bytes(ev[3])
         THEN IF of = "Network" THEN <<"panic">> ELSE <<"skip">>
         ELSE IF IsVerifyingKey(ev[3]) THEN <<"key", ev[3][1]>> ELSE <<"skip">>
    ELSE <<"skip">>

(* a Response that carries a valid key for id *)
IsKeyFor(ev, id) ==
    ev[1] = "Response" /\ ev[2] = id /\ Is32Bytes(ev[3]) /\ IsVerifyingKey(ev[3])

Responses ==
    {<<"Response", "A", KeyBytes("KA")>>, <<"Response", "A", Text("hi")>>,
     <<"Response", "B", KeyBytes("KB")>>}

(* the application calls resolve(id) *)
RCall(id) ==
    /\ rcall.pc = "idle"
    /\ rcall' = [rcall EXCEPT !.pc = "check", !.id = id]
    /\ lastOp' = <<"resolve", "call", id>>
    /\ UNCHANGED <<now, ticks, nodes, seeded, netvars, resvars, codvars, tkvars, lorvars,
                   closed, inbound, map>>

(* the cache look-up under the read lock *)
RCheck ==
    /\ rcall.pc = "check"
    /\ LET k == cached(map, rcall.id, now) IN
          rcall' = IF k = None THEN [rcall EXCEPT !.pc = "subscribe"]
                   ELSE [rcall EXCEPT !.pc = "done", !.result = k]
    /\ lastOp' = <<"resolve", "check">>
    /\ UNCHANGED <<now, ticks, nodes, seeded, netvars, resvars, codvars, tkvars, lorvars,
                   closed, inbound, map>>

(* router_target.as_stream().filter_map(..), then select! starts the 10 s  *)
(* sleep                                                                   *)
RSubscribe ==
    /\ rcall.pc = "subscribe"
    /\ rcall' = [rcall EXCEPT !.pc = "wait", !.deadline = now + RESOLVE_TIMEOUT_SECS]
    /\ lastOp' = <<"resolve", "subscribe">>
    /\ UNCHANGED <<now, ticks, nodes, seeded, netvars, resvars, codvars, tkvars, lorvars,
                   closed, inbound, map>>

(* the inbound loop emits a routing event on router_target *)
REmit(n, ev) ==
    /\ sends < MaxSends
    /\ Len(routerQ[n]) < MaxQueue
    /\ sends' = sends + 1
    /\ routerQ' = [routerQ EXCEPT ![n] = IF alive[n] THEN Append(@, ev) ELSE @]
    /\ rcall' = [rcall EXCEPT
                   !.stream = IF Subscribed(rcall) THEN Append(@, ev) ELSE @,
                   !.heard = @ \/ (/\ rcall.pc \in {"check", "subscribe", "wait"}
                                   /\ IsKeyFor(ev, rcall.id))]
    /\ lastOp' = <<"emit", n, ev>>
    /\ UNCHANGED <<now, ticks, nodes, seeded, up, inbox, alive, asked, resvars, codvars,
                   tkvars, lorvars, closed, inbound, map>>

(* resolver.next() is polled on the next event of the stream *)
RPoll ==
    /\ rcall.pc = "wait"
    /\ rcall.stream # <<>>
    /\ LET f == Filtered(rcall.of, rcall.id, Head(rcall.stream)) IN
          rcall' = CASE f[1] = "skip" -> [rcall EXCEPT !.stream = Tail(@)]
                     [] f[1] = "panic" -> [rcall EXCEPT !.stream = <<>>, !.pc = "panicked"]
                     [] OTHER -> [rcall EXCEPT !.stream = <<>>, !.pc = "store",
                                               !.key = Some(f[2])]
    /\ lastOp' = <<"resolve", "poll">>
    /\ UNCHANGED <<now, ticks, nodes, seeded, netvars, resvars, codvars, tkvars, lorvars,
                   closed, inbound, map>>

(* the sleep of select! completes first *)
RTimeout ==
    /\ rcall.pc = "wait"
    /\ rcall.stream = <<>>
    /\ now >= rcall.deadline
    /\ rcall' = [rcall EXCEPT !.pc = "done", !.result = None]
    /\ lastOp' = <<"resolve", "timeout">>
    /\ UNCHANGED <<now, ticks, nodes, seeded, netvars, resvars, codvars, tkvars, lorvars,
                   closed, inbound, map>>

(* if let Some(key) = resp: cache it, return it *)
RStore ==
    /\ rcall.pc = "store"
    /\ map' = insert(map, rcall.id, rcall.key[1], now)
    /\ rcall' = [rcall EXCEPT !.pc = "done", !.result = rcall.key]
    /\ lastOp' = <<"resolve", "store">>
    /\ UNCHANGED <<now, ticks, nodes, seeded, netvars, resvars, codvars, tkvars, lorvars,
                   closed, inbound>>

(* handle_requests on a Response: the key, if it is one, is cached; the    *)
(* handler of Network unwraps the conversion to 32 bytes                   *)
KHandle(n) ==
    /\ alive[n]
    /\ routerQ[n] # <<>>
    /\ LET ev == Head(routerQ[n])
           dies == rcall.of = "Network" /\ ~Is32Bytes(ev[3])
       IN  /\ alive' = [alive EXCEPT ![n] = ~dies]
           /\ routerQ' = [routerQ EXCEPT ![n] = IF dies THEN <<>> ELSE Tail(@)]
           /\ map' = IF Is32Bytes(ev[3]) /\ IsVerifyingKey(ev[3])
                     THEN insert(map, ev[2], ev[3][1], now)
                     ELSE map
           /\ lastOp' = <<"khandle", n, ev>>
    /\ UNCHANGED <<now, ticks, nodes, seeded, up, inbox, sends, asked, resvars, codvars,
                   tkvars, lorvars, closed, inbound, rcall>>

(* the caches resolve starts from: empty, A fresh, A expired *)
ResolveMaps ==
    {EmptyMap} \cup {[i \in {"A"} |-> <<at, "KA">>] : at \in {0, 0 - RESOLUTION_TTL_SECS}}

ResolveInit ==
    /\ Started({Receiver}) /\ ResolverNew(MAX_PAYLOAD_SIZE) /\ CodecIdle /\ TasksIdle
    /\ closed = FALSE
    /\ inbound = <<"recv">>
    /\ map \in ResolveMaps
    /\ \E of \in {"Resolver", "Network"} : rcall = [NoCall EXCEPT !.of = of]
    /\ SerialIdle

ResolveNext ==
    \/ \E id \in {"A", "B"} : RCall(id)
    \/ RCheck
    \/ RSubscribe
    \/ \E ev \in Responses : REmit(Receiver, ev)
    \/ RPoll
    \/ RTimeout
    \/ RStore
    \/ KHandle(Receiver)
    \/ Tick(RESOLVE_TIMEOUT_SECS)

ResolveSpec == ResolveInit /\ [][ResolveNext]_vars

-----------------------------------------------------------------------------
(* The reader task of Lora (src/modes/lora.rs): successive calls of        *)
(* Lora::recv on the serial line.  serial holds the bytes written and not  *)
(* yet read, buffer the local buffer of the running call, got the payloads *)
(* the calls returned, wrote the payloads that were framed onto the line.  *)

LENGTH_FIELD_SIZE == 1

CHUNK_SIZE == 16

(* the frame of a payload: its length in one byte, then the payload *)
Framed(payload) == <<Len(payload)>> \o payload

(* the while loop of recv over buffer from offset i: the frame found, or   *)
(* the offset at which it waits for the next chunk                         *)
RECURSIVE Scan(_, _)
Scan(buf, i) ==
    IF i >= Len(buf) \/ Len(buf) - i < LENGTH_FIELD_SIZE
    THEN <<"more", i>>
    ELSE LET payload_len == buf[i + 1]
             frame_len == LENGTH_FIELD_SIZE + payload_len
         IN  IF payload_len = 0 \/ payload_len > MAX_PAYLOAD_SIZE
             THEN Scan(buf, i + 1)
             ELSE IF Len(buf) - i >= frame_len
                  THEN <<"frame", SubSeq(buf, i + LENGTH_FIELD_SIZE + 1, i + frame_len)>>
                  ELSE <<"more", i>>

(* what the next call of recv starts from when a call returns with rest    *)
(* left in its buffer: buffer is a local of recv                           *)
BufferAfterReturn(rest) == <<>>

(* a frame of payload is written to the line *)
SerialWrite(payload) ==
    /\ sends < MaxSends
    /\ sends' = sends + 1
    /\ serial' = serial \o Framed(payload)
    /\ wrote' = Append(wrote, payload)
    /\ lastOp' = <<"write", payload>>
    /\ UNCHANGED <<now, ticks, nodes, seeded, up, inbox, routerQ, alive, asked, resvars,
                   codvars, tkvars, closed, inbound, map, rcall, buffer, got>>

(* one turn of the loop of recv: read_exact of a chunk, then the scan; on  *)
(* a frame the call returns and the reader task emits it and calls again   *)
LoraRecv ==
    /\ Len(serial) >= CHUNK_SIZE
    /\ serial' = SubSeq(serial, CHUNK_SIZE + 1, Len(serial))
    /\ LET buf == buffer \o SubSeq(serial, 1, CHUNK_SIZE)
           r == Scan(buf, 0)
       IN  IF r[1] = "frame"
           THEN /\ got' = Append(got, r[2])
                /\ buffer' = BufferAfterReturn(buf)
                /\ lastOp' = <<"lora", "frame">>
           ELSE /\ got' = got
                /\ buffer' = SubSeq(buf, r[2] + 1, Len(buf))
                /\ lastOp' = <<"lora", "more">>
    /\ UNCHANGED <<now, ticks, nodes, seeded, netvars, resvars, codvars, tkvars,
                   closed, inbound, map, rcall, wrote>>

(* payloads of 15 bytes (a frame is one chunk), 3 and 20 bytes *)
SerialPayloads == {Payload(15, 0), Payload(3, 0), Payload(20, 0)}

SerialInit == Started({}) /\ ResolverNew(MAX_PAYLOAD_SIZE) /\ CodecIdle /\ TasksIdle /\ IoIdle

SerialNext ==
    \/ \E payload \in SerialPayloads : SerialWrite(payload)
    \/ LoraRecv

SerialSpec == SerialInit /\ [][SerialNext]_vars

-----------------------------------------------------------------------------
(* RoutingMessage::to_message followed by RoutingMessage::from_message, on *)
(* every routing message over the ids, keys and texts of the model.        *)

RoutingMessages ==
    {<<"Announce", id>> : id \in Ids}
    \cup {<<"RequestKey", id>> : id \in Ids}
    \cup {<<"ProvideKey", id, k>> :
                id \in Ids, k \in {KeyBytes("KA"), KeyBytes("KX"), Text("hi")}}
    \cup {<<"RequestRelayCapability", id>> : id \in Ids}
    \cup {<<"ProvideRelayCapability", from, to, st>> :
                from \in Ids, to \in Ids, st \in BOOLEAN}
    \cup {<<"Relay", id, DataMsg("A", 0)>> : id \in Ids}
    \cup {<<"RelayFailure", id, Text(w)>> : id \in Ids, w \in {"hi", "ho"}}
    \cup {<<"Ping", to, from>> : to \in Ids, from \in Ids}
    \cup {<<"Pong", to, from>> : to \in Ids, from \in Ids}

(* msg = rm.to_message()? *)
ToMessage(rm) ==
    /\ msg' = to_message(rm, now, <<>>)
    /\ iter' \in HeaderOrders(msg'.headers)
    /\ lastOp' = <<"to_message", rm>>
    /\ UNCHANGED <<now, ticks, nodes, seeded, netvars, resvars, sealed, ops, tkvars, iovars>>

(* RoutingMessage::from_message(&msg) *)
FromMessage ==
    /\ lastOp[1] = "to_message"
    /\ lastOp' = <<"from_message", lastOp[2], from_message(msg)>>
    /\ UNCHANGED <<now, ticks, nodes, seeded, netvars, resvars, codvars, tkvars, iovars>>

RoundTripInit == Started({}) /\ ResolverNew(MAX_PAYLOAD_SIZE) /\ CodecIdle /\ TasksIdle /\ IoIdle

RoundTripNext ==
    \/ \E rm \in RoutingMessages : ToMessage(rm)
    \/ FromMessage

RoundTripSpec == RoundTripInit /\ [][RoundTripNext]_vars

-----------------------------------------------------------------------------
(* Properties of the peer table, checked under TableSpec                   *)

Table == nodes[TableOwner]

Fresh(t, id) ==
    id \in DOMAIN t /\ now - t[id].last_seen < RESOLUTION_TTL_SECS

(* C1: after announced(id, k) for an id without entry, knows(id) is false  *)
(* and stays false until a pong(id) or a further announced(id, _); no      *)
(* other operation makes the entry fresh.                                  *)
C1_SeededStaysUnknown ==
    \A n \in Node : \A id \in seeded[n] : ~knows(nodes[n], id, now)

(* C2: once an entry's relation is Local it is never changed to Relay.     *)
C2_LocalNeverDowngraded ==
    [][\A n \in Node : \A id \in DOMAIN nodes[n] :
          nodes[n][id].relation = Local =>
             /\ id \in DOMAIN nodes'[n]
             /\ nodes'[n][id].relation = Local]_vars

C2_Witness ==
    /\ lastOp[1] = "relayed"
    /\ lastOp[3] \in DOMAIN nodes[lastOp[2]]
    /\ nodes[lastOp[2]][lastOp[3]].relation = Local
    /\ lastOp[4] # lastOp[3]

(* C3: relayed(id, via) on an entry whose relation is Local leaves the     *)
(* whole entry (relation, key, last_seen) unchanged.                       *)
C3_RelayedOnLocalIsNoOp ==
    [][\A n \in Node : \A id \in DOMAIN nodes[n] :
          (/\ lastOp'[1] = "relayed"
           /\ lastOp'[2] = n
           /\ lastOp'[3] = id
           /\ nodes[n][id].relation = Local)
          => nodes'[n][id] = nodes[n][id]]_vars

(* C4: knows, key().is_some() and get().is_some() agree and hold exactly   *)
(* when an entry exists with now - last_seen < 5000 s; can_relay holds     *)
(* exactly when that holds and the relation is Local.                      *)
C4_FreshnessQueriesAgree ==
    \A n \in Node : \A id \in Ids :
        LET t == nodes[n] IN
        /\ knows(t, id, now) = Fresh(t, id)
        /\ (key(t, id, now) # None) = Fresh(t, id)
        /\ (get(t, id, now) # None) = Fresh(t, id)
        /\ can_relay(t, id, now) = (Fresh(t, id) /\ t[id].relation = Local)
        /\ Fresh(t, id) => /\ key(t, id, now) = Some(t[id].key)
                           /\ get(t, id, now) = Some(<<t[id].relation, t[id].key>>)

C4_Witness ==
    \E a, b \in DOMAIN Table :
        /\ now - Table[a].last_seen = RESOLUTION_TTL_SECS - 1
        /\ knows(Table, a, now)
        /\ Table[b].last_seen >= 0
        /\ now - Table[b].last_seen = RESOLUTION_TTL_SECS
        /\ ~knows(Table, b, now)

-----------------------------------------------------------------------------
(* Properties of the network                                               *)

(* C5: with two running nodes in range of each other on a lossless medium, *)
(* the one announcing periodically, the other eventually knows it and      *)
(* stores its verifying key.                                               *)
C5_DiscoveryCompletes ==
    \A a \in {"A", "R"} : \A b \in Reach(a) \cap {"A", "R"} :
        <>(/\ knows(nodes[b], a, now)
           /\ nodes[b][a].key = VerifyingKeyOf(a))

(* C6: send(msg) with target = Some(id), where id has no entry or only a   *)
(* stale one, returns UnknownPeer, hands no frame to the transport and     *)
(* leaves the peer table unchanged.                                        *)
C6_UnknownPeerSend ==
    [][\A n \in Node :
          (/\ lastOp'[1] = "send"
           /\ lastOp'[2] = n
           /\ lastOp'[3].target # None
           /\ ~Fresh(nodes[n], lastOp'[3].target[1]))
          => /\ lastOp'[4] = "UnknownPeer"
             /\ lastOp'[5] = <<>>
             /\ inbox' = inbox
             /\ nodes' = nodes]_vars

C6_Witness ==
    /\ lastOp[1] = "send"
    /\ lastOp[3].target # None
    /\ lastOp[3].target[1] \in DOMAIN nodes[lastOp[2]]
    /\ ~Fresh(nodes[lastOp[2]], lastOp[3].target[1])
    /\ lastOp[4] = "UnknownPeer"

(* C7: a successful send(msg) hands exactly one frame to the transport:    *)
(* the serialization of msg unchanged when the target is None or a fresh   *)
(* Local peer; for a fresh peer id with relation Relay{via}, a message     *)
(* with status Relay, header for = id, target = via and body = the         *)
(* serialization of msg.                                                   *)
C7_SendOneFrame ==
    [][\A n \in Node :
          (/\ lastOp'[1] = "send"
           /\ lastOp'[2] = n
           /\ lastOp'[4] = "Ok")
          => LET m == lastOp'[3]
                 frames == lastOp'[5]
             IN  /\ Len(frames) = 1
                 /\ inbox' = Transmitted(inbox, n, frames)
                 /\ IsMessageBytes(frames[1])
                 /\ LET w == deserialize(frames[1]) IN
                    IF m.target = None
                    THEN frames[1] \in Serializations(m) /\ w = m
                    ELSE LET id == m.target[1] IN
                         /\ Fresh(nodes[n], id)
                         /\ IF nodes[n][id].relation = Local
                            THEN frames[1] \in Serializations(m) /\ w = m
                            ELSE /\ w.status = Named("Relay")
                                 /\ w.headers = [h \in {"for"} |-> UuidBytes(id)]
                                 /\ w.target = Some(nodes[n][id].relation[2])
                                 /\ w.body \in Serializations(m)]_vars

C7_Witness ==
    /\ lastOp[1] = "send"
    /\ lastOp[4] = "Ok"
    /\ lastOp[3].target # None
    /\ nodes[lastOp[2]][lastOp[3].target[1]].relation = Relay("R")
    /\ lastOp[3].target[1] = "B"
    /\ deserialize(lastOp[5][1]).target = Some("R")
    /\ inbox["R"] = lastOp[5]

(* C10: an inbound message whose signature does not verify against the key *)
(* of its declared sender is never emitted to the application stream.      *)
C10_NoUnverifiedEmission ==
    (/\ lastOp[1] = "recv"
     /\ lastOp[4] = "app"
     /\ lastOp[5].sender # None)
    => \E ord \in HeaderOrders(lastOp[5].headers) :
          verify(lastOp[5], VerifyingKeyOf(lastOp[5].sender[1]), ord)

(* C8: when A cannot reach B directly, after A has learned B, broadcast    *)
(* RequestRelay(B) and received R's ProvideRelay(R, B, true), A's peer     *)
(* table holds B with relation Relay{via = R}.                             *)
C8_RelayRouteRecorded ==
    \A a \in Node : \A r \in Reach(a) : \A b \in Node \ (Reach(a) \cup {a}) :
        (/\ lastOp[1] = "handle"
         /\ lastOp[2] = a
         /\ lastOp[3] = <<"ProvideRelayCapability", r, b, TRUE>>
         /\ b \in asked[a]
         /\ b \in DOMAIN nodes[a])
        => nodes[a][b].relation = Relay(r)

(* C9: a Relay wrapper built by send for destination B through relay R     *)
(* (header for = B, target = R) is unwrapped when R handles it, and the    *)
(* inner message is emitted to R's application stream.                     *)
C9_WrapperUnwrappedAtRelay ==
    \A r \in Node :
        (/\ lastOp[1] = "handle"
         /\ lastOp[2] = r
         /\ lastOp[3][1] = "Relay")
        => lastOp[4].emit = Some(lastOp[3][3])

-----------------------------------------------------------------------------
(* Properties of reassembly, checked under FragSpec                        *)

(* The deliveries of the Split frames sent under message id id *)
FramesOf(id) == {i \in DOMAIN wire : IsSplitFrame(wire[i]) /\ wire[i][2] = id}

EmittedFor(id) == {j \in DOMAIN emitted : emitted[j][1] = id}

DeliveredOnce(id) == \A i \in FramesOf(id) : delivered[i] = 1

Reassembled(id) ==
    /\ Cardinality(EmittedFor(id)) = 1
    /\ \A j \in EmittedFor(id) : emitted[j][2].body = Payload(split[id][1], split[id][2])
    /\ id \notin DOMAIN partial_messages

(* C11 as stated: once every Split frame of a fragmented message has been  *)
(* delivered exactly once, in whatever order, exactly one message has been *)
(* emitted for it, its bytes are the original payload, and                 *)
(* partial_messages holds no entry for its id.                             *)
C11_ReassemblesAnyOrder ==
    \A id \in DOMAIN split : DeliveredOnce(id) => Reassembled(id)

(* C11 amended: the same, provided no GC run has evicted the pending       *)
(* reassembly of that id between two of its chunks.                        *)
C11_ReassemblesUnlessEvicted ==
    \A id \in DOMAIN split :
        (DeliveredOnce(id) /\ id \notin evicted) => Reassembled(id)

C11_Witness ==
    /\ "P1" \in DOMAIN split
    /\ Cardinality(FramesOf("P1")) = 3
    /\ DeliveredOnce("P1")
    /\ Reassembled("P1")
    /\ "P2" \in DOMAIN partial_messages
    /\ DOMAIN partial_messages["P2"].parts = {1}

(* C12: as long as one chunk of a fragmented message has not been          *)
(* delivered, no message is emitted for its id, however often and in       *)
(* whatever order the other chunks are delivered.                          *)
C12_NoEmissionWithoutAllChunks ==
    \A id \in DOMAIN split :
        (\E i \in FramesOf(id) : delivered[i] = 0) => EmittedFor(id) = {}

C12_Witness ==
    /\ "P1" \in DOMAIN partial_messages
    /\ DOMAIN partial_messages["P1"].parts = {0, 2}
    /\ \E i \in FramesOf("P1") : wire[i][3] = 1 /\ delivered[i] = 0
    /\ \E i \in FramesOf("P1") : delivered[i] = 2
    /\ EmittedFor("P1") = {}

(* C14: a GC run keeps unchanged every pending reassembly idle for less    *)
(* than 300 s, removes every one idle for more than 300 s, and changes     *)
(* nothing else.                                                           *)
C14_GcEvictsOnlyIdle ==
    [][lastOp'[1] = "gc" =>
         /\ \A id \in DOMAIN partial_messages :
               LET idle == now - partial_messages[id].last_update IN
               /\ idle < 300 => /\ id \in DOMAIN partial_messages'
                                /\ partial_messages'[id] = partial_messages[id]
               /\ idle > 300 => id \notin DOMAIN partial_messages'
         /\ DOMAIN partial_messages' \subseteq DOMAIN partial_messages
         /\ UNCHANGED <<wire, delivered, emitted, split>>]_vars

C14_Witness ==
    /\ lastOp = <<"gc">>
    /\ ticks = 2
    /\ evicted = {"P1"}
    /\ "P2" \in DOMAIN partial_messages
    /\ now - partial_messages["P2"].last_update = 299

-----------------------------------------------------------------------------
(* Properties of splitting, checked under SplitSpec                        *)

(* The last send split data at max_length ml under id: the last n frames   *)
(* on the wire are Split frames in index order 0..n-1, all with that id    *)
(* and total = n, whose data fields are the consecutive slices of ml - 100 *)
(* octets of data (so that their concatenation in index order is data).    *)
SplitInto(data, ml, id, n) ==
    /\ ~lastOp[4]
    /\ lastOp[5] = n
    /\ Len(wire) >= n
    /\ \A i \in 1..n :
          LET f == wire[Len(wire) - n + i] IN
          /\ IsSplitFrame(f)
          /\ f[4] = n
          /\ f[3] = i - 1
          /\ f[2] = id
          /\ f[5] = SubSeq(data, (i - 1) * (ml - 100) + 1,
                           IF i * (ml - 100) < Len(data) THEN i * (ml - 100)
                           ELSE Len(data))

(* ceil(len / (ml - 100)) *)
ExpectedParts(len, ml) == (len + (ml - 100) - 1) \div (ml - 100)

(* C13 as stated: a payload longer than max_frame, with max_frame > 100,   *)
(* is sent as N = ceil(len / (max_frame - 100)) Split frames in index      *)
(* order, all with the same part-id and total = N, whose data fields       *)
(* concatenated in index order equal the payload.                          *)
C13_SplitFramesCoverPayload ==
    (/\ lastOp[1] = "split"
     /\ max_length > 100
     /\ lastOp[3] > max_length)
    => /\ lastOp[2] \in DOMAIN split
       /\ split[lastOp[2]][1] = lastOp[3]
       /\ \E data \in {Payload(lastOp[3], split[lastOp[2]][2])} :
             SplitInto(data, max_length, lastOp[2],
                       ExpectedParts(lastOp[3], max_length))

(* C13 amended: the same for payloads of fewer than 2^16 chunks, the       *)
(* range of the u16 fields index and total.                                *)
C13_SplitFramesCoverPayloadU16 ==
    (/\ lastOp[1] = "split"
     /\ max_length > 100
     /\ lastOp[3] > max_length
     /\ ExpectedParts(lastOp[3], max_length) < U16)
    => /\ lastOp[2] \in DOMAIN split
       /\ split[lastOp[2]][1] = lastOp[3]
       /\ \E data \in {Payload(lastOp[3], split[lastOp[2]][2])} :
             SplitInto(data, max_length, lastOp[2],
                       ExpectedParts(lastOp[3], max_length))

C13_Witness ==
    /\ lastOp[1] = "split"
    /\ max_length = 1200
    /\ lastOp[3] = 4000
    /\ lastOp[5] = 4
    /\ Len(wire) > 4
    /\ Len(wire[Len(wire)][5]) = 700

-----------------------------------------------------------------------------
(* Properties of the message codec, checked under CodecSpec                *)

(* C15: a message signed by an identity verifies under the verifying key   *)
(* of that identity; sign sets the sender to the signer's id, leaves the   *)
(* other fields as they were, and the signature is over the serialization  *)
(* of the message with its signature absent.                               *)
C15_SignedVerifies ==
    lastOp[1] = "sign" =>
        LET id == lastOp[2]
            m == lastOp[3]
            unsigned == [m EXCEPT !.sender = Some(id), !.signature = None]
        IN  /\ verify(msg, VerifyingKeyOf(id), iter)
            /\ msg.sender = Some(id)
            /\ [msg EXCEPT !.signature = None] = unsigned
            /\ msg.signature =
                    Some(Signature(VerifyingKeyOf(id), serialize(unsigned, iter)))

C15_Witness ==
    /\ lastOp[1] = "sign"
    /\ DOMAIN msg.headers = CodecHeaders
    /\ msg.body # <<>>
    /\ verify(msg, VerifyingKeyOf("A"), iter)

(* C16: serialization is deterministic: a message that went through       *)
(* serialize and deserialize serializes to the bytes it was read from,     *)
(* whatever the order in which its header map is iterated.                 *)
C16_ReserializesToSameBytes ==
    lastOp[1] = "deserialize" => serialize(msg, iter) = lastOp[2]

(* C17: decrypt_body by the recipient, applied to the result of            *)
(* encrypt_body for that recipient, succeeds and returns the message that  *)
(* was encrypted, without the ephemeral_key and nonce headers.             *)
C17_DecryptReturnsEncrypted ==
    [][(/\ lastOp[1] = "encrypt_body"
        /\ lastOp'[1] = "decrypt_body"
        /\ lastOp'[2] = lastOp[2])
       => (/\ lastOp'[3] = "Ok"
           /\ msg' = sealed[1][2])]_vars

-----------------------------------------------------------------------------
(* Properties of the status octet, checked under StatusSpec                *)

OkBands == (1..14) \cup (21..30) \cup (31..40)

(* C18: the status decoded from an octet is ok exactly when the octet lies *)
(* in the Routing band 1..14, the Hints band 21..30 or the Oks band        *)
(* 31..40.                                                                 *)
C18_OkExactlyInOkBands ==
    lastOp[1] = "deserialize" => (is_ok(msg.status) <=> lastOp[2][8] \in OkBands)

-----------------------------------------------------------------------------
(* Properties of the announcer and of the inbound loop, checked under Spec  *)
(* and InboundSpec                                                         *)

(* C19: the frame the announcer of a node broadcasts carries status 001    *)
(* Announce and the node's id in header self, and a receiver classifies it *)
(* as Announce(id of the sender).                                          *)
C19_AnnounceIsAnnounce ==
    lastOp[1] = "announce" =>
        LET n == lastOp[2]
            m == deserialize(lastOp[3])
        IN  /\ m.status = Named("Announce")
            /\ "self" \in DOMAIN m.headers
            /\ m.headers["self"] = UuidBytes(n)
            /\ from_message(m) = <<"Some", <<"Announce", n>>>>

(* the routing control statuses 001..=008 *)
IsRoutingControl(st) == as_u8(st) \in 1..8

(* C20: a deserialized inbound message goes to the routing stream if and   *)
(* only if its status is a routing control status and its target is absent *)
(* or this node's id, and to the application stream otherwise.             *)
C20_InboundClassification ==
    (lastOp[1] = "recv" /\ lastOp[4] # "dropped") =>
        LET n == lastOp[2]
            m == deserialize(lastOp[3])
        IN  /\ lastOp[4] \in {"router", "app"}
            /\ lastOp[4] = "router" <=> (IsRoutingControl(m.status) /\ for_id(m, n))

-----------------------------------------------------------------------------
(* Properties of the inbound loop and of the routing handler, checked      *)
(* under InboundSpec                                                       *)

(* the program state of a node apart from the frames waiting in its        *)
(* transport                                                               *)
StateBesideInbox ==
    <<now, ticks, nodes, seeded, up, routerQ, alive, sends, asked,
      max_length, partial_messages, wire, delivered, emitted, split, evicted,
      gcWake, msg, iter, sealed, ops, pc, held, cur, log, closed, inbound, map, rcall, lorvars>>

(* C21: a frame that fails to parse is dropped: nothing is emitted, the    *)
(* peer table is unchanged, and the drop is counted, that is, some part of *)
(* the state other than the transport's queue records it.                  *)
C21_MalformedDroppedAndCounted ==
    [][(lastOp'[1] = "recv" /\ lastOp'[4] = "dropped")
       => (/\ nodes' = nodes
           /\ routerQ' = routerQ
           /\ StateBesideInbox' # StateBesideInbox)]_vars

(* C22: an inbound message whose sender field is the receiving node's own *)
(* id is discarded: it is emitted to neither stream, changes no peer-table *)
(* entry and triggers no reply.                                            *)
C22_SelfLoopDiscarded ==
    [][(/\ lastOp'[1] = "recv"
        /\ lastOp'[4] # "dropped"
        /\ deserialize(lastOp'[3]).sender = Some(lastOp'[2]))
       => (/\ lastOp'[4] \notin {"router", "app"}
           /\ StateBesideInbox' = StateBesideInbox)]_vars

-----------------------------------------------------------------------------
(* Properties of decoding and of the routing handler, checked under        *)
(* HandlerSpec                                                             *)

(* the control message named like each routing status *)
ControlOf ==
    [Announce |-> "Announce", Ping |-> "Ping", Pong |-> "Pong",
     RequestKey |-> "RequestKey", ProvideKey |-> "ProvideKey",
     RequestRelay |-> "RequestRelayCapability",
     ProvideRelay |-> "ProvideRelayCapability",
     Relay |-> "Relay", RelayFailure |-> "RelayFailure"]

(* C23: from_message maps each wire status to the control message of the   *)
(* same name (RequestRelay to a relay request, Pong to Pong), and status   *)
(* Announce with the id in header self to Announce(id).                    *)
C23_DecodesToSameName ==
    (lastOp[1] = "recv" /\ lastOp[4] # "dropped") =>
        LET m == deserialize(lastOp[3]) IN
        /\ lastOp[4] = "router" => lastOp[5][1] = ControlOf[m.status[1]]
        /\ (m.status = Named("Announce") /\ HasUuid(m, "self"))
              => (lastOp[4] = "router" /\ lastOp[5] = <<"Announce", uuid(m, "self")>>)

(* C24: the frame the routing handler hands to the transport for a reply  *)
(* is the reply's message with the headers and body of its kind.           *)
C24_ReplyCarriesPayload ==
    (lastOp[1] = "handle" /\ lastOp[4].reply # None) =>
        /\ Len(lastOp[5]) = 1
        /\ lastOp[5][1] \in Serializations(to_message(lastOp[4].reply[1], now, <<>>))

(* the wire message the inbound loop took in the step before *)
Received == deserialize(lastOp[3])

(* the handler runs on the event decoded from a received message of        *)
(* status st                                                               *)
HandlesReceived(st) ==
    /\ lastOp[1] = "recv"
    /\ lastOp[4] = "router"
    /\ Received.status = Named(st)
    /\ lastOp'[1] = "handle"

(* C25: when a Pong with to = me and from = p is received and p has an     *)
(* entry, the entry becomes Local with last_seen = now and no reply is     *)
(* sent; if to is another node or p has no entry the table is unchanged.   *)
C25_PongRefreshesEntry ==
    [][HandlesReceived("Pong") =>
        LET me == lastOp[2]
            to == uuid(Received, "to")
            p == uuid(Received, "from")
        IN  IF to = me /\ p \in DOMAIN nodes[me]
            THEN /\ nodes'[me] = pong(nodes[me], p, now)
                 /\ knows(nodes'[me], p, now)
                 /\ lastOp'[5] = <<>>
            ELSE nodes' = nodes]_vars

(* the reply the claim expects to RequestKey(id) at node me with table t *)
KeyReply(me, id, t, t_now) ==
    IF id = me
    THEN Some(<<"ProvideKey", me, KeyBytes(VerifyingKeyOf(me))>>)
    ELSE IF knows(t, id, t_now)
         THEN Some(<<"ProvideKey", id, KeyBytes(t[id].key)>>)
         ELSE None

KeyProvided(t, id, bytes, t_now) ==
    IF Len(bytes) = 1 /\ bytes[1] \in Keys
    THEN [i \in DOMAIN t \cup {id} |->
            IF i # id THEN t[i]
            ELSE IF id \in DOMAIN t
                 THEN Entry(t_now, t[id].relation, bytes[1])
                 ELSE Entry(t_now - RESOLUTION_TTL_SECS, Local, bytes[1])]
    ELSE t

(* C27: on ProvideKey(id, bytes) with bytes a valid verifying key,         *)
(* announced(id, key) is applied (new id: stale Local entry with that key; *)
(* known id: last_seen = now, key replaced, relation kept); with other     *)
(* bytes the peer table is unchanged; no reply is sent in either case.     *)
C27_ProvideKeyAnnounces ==
    [][HandlesReceived("ProvideKey") =>
        LET me == lastOp[2] IN
        /\ nodes'[me] = KeyProvided(nodes[me], uuid(Received, "for"), Received.body, now)
        /\ \A n \in Node \ {me} : nodes'[n] = nodes[n]
        /\ lastOp'[4].reply = None
        /\ lastOp'[5] = <<>>]_vars

C27_Witness ==
    /\ lastOp[1] = "handle"
    /\ lastOp[3] = <<"ProvideKey", "A", KeyBytes("KB")>>
    /\ "A" \in DOMAIN nodes[Receiver]
    /\ nodes[Receiver]["A"] = Entry(now, Local, "KB")
    /\ "A" \notin seeded[Receiver]

(* C28: on ProvideRelay(from, to, true) the handler applies                 *)
(* relayed(id = to, via = from): the entry updated is the one for to; a    *)
(* ProvideRelay with status false changes nothing.                         *)
C28_ProvideRelayRecordsRoute ==
    [][HandlesReceived("ProvideRelay") =>
        LET me == lastOp[2]
            from == uuid(Received, "from")
            to == uuid(Received, "to")
        IN  nodes'[me] =
                IF Received.headers["status"] = Text("true")
                THEN relayed(nodes[me], to, from, now)
                ELSE nodes[me]]_vars

-----------------------------------------------------------------------------
(* Properties of the tasks, checked under TaskSpec                         *)

(* C30: no task holds the peer-table lock, read or write, while it is      *)
(* suspended in a transport send.                                          *)
C30_NoLockAcrossTransportAwait ==
    \A k \in Tasks : pc[k] = "send" => held[k] = "none"

C30_Witness ==
    /\ pc["handler"] = "send"
    /\ LockNeed(Receiver, cur["handler"][1]) = "read"
    /\ \E k \in Senders : held[k] = "read"

(* the handler's record: each event taken is followed by its reply being   *)
(* handed to the transport and that send returning, or by no reply, before *)
(* the next event is taken                                                 *)
OneAtATime(l) ==
    \A i \in 1..Len(l) :
        CASE l[i][1] = "take" -> i = 1 \/ l[i - 1][1] \in {"sent", "none"}
          [] l[i][1] = "sent" -> i > 1 /\ l[i - 1] = <<"reply", l[i][2]>>
          [] OTHER -> i > 1 /\ l[i - 1] = <<"take", l[i][2]>>

-----------------------------------------------------------------------------
(* Properties of the inbound loop, checked under LoopSpec                  *)

(* C31: when transport.recv() reports a closed channel the inbound loop    *)
(* terminates; on any other receive error it sleeps 1 s and retries.       *)
C31_ClosedEndsLoop ==
    [][lastOp'[1] = "recverr" =>
          IF lastOp'[3] = "closed"
          THEN inbound' = <<"done">>
          ELSE inbound' = <<"sleep", now + 1>>]_vars

-----------------------------------------------------------------------------
(* Properties of resolve, checked under ResolveSpec                        *)

(* C32: resolve(id) always returns: the cached key at once when the entry  *)
(* is fresh; the key of a valid response seen within 10 s, which is then   *)
(* cached with last_seen = now; otherwise None after 10 s, without error   *)
(* and with the key table unchanged.                                       *)
C32_ResolveAlwaysReturns ==
    [][rcall'.pc \in {"done", "panicked"} /\ rcall.pc \notin {"done", "panicked"} =>
          /\ rcall'.pc = "done"
          /\ CASE rcall.pc = "check" ->
                     rcall'.result = Some(map[rcall.id][2]) /\ map' = map
               [] rcall.pc = "store" ->
                     /\ rcall'.result = rcall.key
                     /\ map' = insert(map, rcall.id, rcall.key[1], now)
               [] OTHER ->
                     /\ rcall'.result = None
                     /\ now >= rcall.deadline
                     /\ map' = map]_vars

(* C37: a valid key response for id processed by the node between the     *)
(* start of resolve(id) and its deadline makes that call return the key.   *)
C37_NoLostResponse ==
    rcall.pc = "done" /\ rcall.heard => rcall.result # None

-----------------------------------------------------------------------------
(* Further properties of splitting, checked under SplitSpec                *)

(* v is the encoding of InternalMessage::Complete(data) *)
IsCompleteOf(v, data) == Len(v) = 2 /\ v = EncodeComplete(data)

(* C33: a payload no longer than max_frame is handed to the transport as   *)
(* exactly one frame, the encoding of InternalMessage::Complete(payload),  *)
(* never as the raw payload.                                               *)
C33_ShortPayloadIsComplete ==
    (lastOp[1] = "split" /\ lastOp[3] <= max_length)
    => /\ ~lastOp[4]
       /\ lastOp[5] = 1
       /\ IsCompleteOf(wire[Len(wire)], Payload(lastOp[3], 0))

(* C40: for every max_frame >= 1 and every payload longer than max_frame   *)
(* the chunk size max_frame - 100 is positive, and the sender emits a      *)
(* finite, non-empty sequence of Split frames and terminates.              *)
C40_ChunkSizePositive ==
    (lastOp[1] = "split" /\ max_length >= 1 /\ lastOp[3] > max_length)
    => /\ max_length - 100 > 0
       /\ ~lastOp[4]
       /\ lastOp[5] >= 1
       /\ \A i \in 1..lastOp[5] : IsSplitFrame(wire[Len(wire) - lastOp[5] + i])

-----------------------------------------------------------------------------
(* Properties of the serial framing, checked under SerialSpec              *)

IsPrefix(a, b) == Len(a) <= Len(b) /\ a = SubSeq(b, 1, Len(a))

(* C34: successive recv calls return the payloads framed onto the line,    *)
(* each once, intact and in order, and a frame whose bytes have all        *)
(* arrived is returned: when recv can read no further, nothing written is  *)
(* outstanding.                                                            *)
C34_FramesReturnedInOrder ==
    /\ IsPrefix(got, wrote)
    /\ Len(serial) < CHUNK_SIZE => got = wrote

-----------------------------------------------------------------------------
(* A further property of reassembly, checked under FragSpec                *)

(* C36: when the Split frames of a fragmented message may each be          *)
(* delivered more than once, in any order, at most one message is emitted  *)
(* for its part-id.                                                        *)
C36_AtMostOneEmission ==
    \A id \in DOMAIN split : Cardinality(EmittedFor(id)) <= 1

-----------------------------------------------------------------------------
(* A further property of the routing handler, checked under HandlerSpec    *)

(* C35: the routing handler never stops: whatever event it has processed,  *)
(* a ProvideKey whose body is not 32 bytes long included, its task is      *)
(* still there to process the events that follow.                          *)
C35_HandlerNeverStops ==
    alive[Receiver]

-----------------------------------------------------------------------------
(* A further property of the message codec, checked under CodecSpec        *)

(* C38: a message that is signed, then serialized, transmitted and         *)
(* deserialized by the receiver still verifies under the signer's key,     *)
(* whatever the number of its headers.                                     *)
C38_SignatureSurvivesWire ==
    [][(lastOp[1] = "sign" /\ lastOp'[1] = "deserialize")
       => verify(msg', VerifyingKeyOf(lastOp[2]), iter')]_vars

-----------------------------------------------------------------------------
(* A property of the routing-message encoding, checked under RoundTripSpec *)

(* C39: for every routing message r, from_message(to_message(r)) is        *)
(* Some(r'), r' being the variant of r with the fields of r.               *)
C39_RoutingRoundTrip ==
    lastOp[1] = "from_message" => lastOp[3] = <<"Some", lastOp[2]>>

====
